---------------------------- MODULE Spec2Model ----------------------------
(***************************************************************************)
(* Model of the Basalt-Viscosity data pipeline: the row normaliser of     *)
(* ProjectBuilder (fuzzyGet, fuzzyGetStr, processImportedData), the App    *)
(* state it feeds (handleDataLoaded, handleDbConnect) and the DataView     *)
(* component (getCompositionSignature, groupedData, the two selection      *)
(* effects, currentData).                                                  *)
(*                                                                         *)
(* Representation.                                                         *)
(*  - A JavaScript string that the code inspects character by character    *)
(*    (row keys, text cells, signatures, remarks) is a sequence of         *)
(*    one-character strings.                                               *)
(*  - A JavaScript number is an integer count of millionths (fixed point,  *)
(*    six decimals); NaN is carried by a separate flag where it can        *)
(*    arise.  A grid value stands for the double nearest to it.  Values    *)
(*    stay below 2147 in magnitude.                                        *)
(*  - A JavaScript object is the sequence of its [k, v] entries in         *)
(*    insertion order; ObjectKeys gives the enumeration order.             *)
(***************************************************************************)
EXTENDS Integers, Sequences, FiniteSets, TLC

(***************************************************************************)
(* Bounds of the model.                                                    *)
(***************************************************************************)
\* longest row sequence of one imported file that is enumerated
MaxRows == 3
\* most file reads that are in flight at the same time
MaxReads == 1
\* most requests to the service of one kind that are in flight at the same
\* time
MaxCalls == 2
\* most messages of the chat
MaxMessages == 4

(***************************************************************************)
(* Characters and strings.                                                 *)
(***************************************************************************)
UpperChars == <<"A","B","C","D","E","F","G","H","I","J","K","L","M",
                "N","O","P","Q","R","S","T","U","V","W","X","Y","Z">>
LowerChars == <<"a","b","c","d","e","f","g","h","i","j","k","l","m",
                "n","o","p","q","r","s","t","u","v","w","x","y","z">>
DigitChars == <<"0","1","2","3","4","5","6","7","8","9">>
\* the members of StrWhiteSpaceChar below U+0080, which parseFloat skips
\* and trim strips: space, tab, the line terminators CR and LF, form feed
\* and vertical tab (U+000B).  The characters of the model are those below
\* U+0080: the other members of StrWhiteSpaceChar (U+00A0, U+1680,
\* U+2000 to U+200A, U+2028, U+2029, U+202F, U+205F, U+3000 and U+FEFF)
\* occur in no text of the model.
WhiteSpaceChars ==
    {" ", "\t", "\r", "\n", "\f", ""}

DigitSet == {DigitChars[i] : i \in 1..10}
DigitMap == [c \in DigitSet |-> (CHOOSE i \in 1..10 : DigitChars[i] = c) - 1]
LowerMap == [c \in {UpperChars[i] : i \in 1..26} |->
                LowerChars[CHOOSE i \in 1..26 : UpperChars[i] = c]]

IsDigit(c) == c \in DigitSet
DigitVal(c) == DigitMap[c]
DigitChar(d) == DigitChars[d + 1]

\* String.prototype.toLowerCase, one character
LowerChar(c) == IF c \in DOMAIN LowerMap THEN LowerMap[c] ELSE c

\* String.prototype.toLowerCase
RECURSIVE toLowerCase(_)
toLowerCase(s) ==
    IF s = <<>> THEN <<>>
    ELSE <<LowerChar(Head(s))>> \o toLowerCase(Tail(s))

\* String.prototype.includes
includes(s, t) ==
    \E i \in 0..(Len(s) - Len(t)) : SubSeq(s, i + 1, i + Len(t)) = t

\* the decimal digits of the natural number n
RECURSIVE NatToChars(_)
NatToChars(n) ==
    IF n < 10 THEN <<DigitChar(n)>>
    ELSE Append(NatToChars(n \div 10), DigitChar(n % 10))

Abs(x) == IF x < 0 THEN -x ELSE x

(***************************************************************************)
(* Numbers.  A Number is NaN, an infinity, or the finite double whose      *)
(* shortest round-trip decimal is 0.d1 d2 ... dk x 10^e (ds = <<d1..dk>>   *)
(* without leading or trailing zeros; ds = <<>> for 0).                    *)
(***************************************************************************)
NaN == [kind |-> "nan", neg |-> FALSE, ds |-> <<>>, e |-> 0]
Infinite(neg) == [kind |-> "inf", neg |-> neg, ds |-> <<>>, e |-> 0]
Zero == [kind |-> "fin", neg |-> FALSE, ds |-> <<>>, e |-> 0]

\* the decimal 0.ds x 10^e of sign neg, ds without leading or trailing
\* zeros; -0 is read as 0 (no operation of the program tells them apart)
Finite(neg, ds, e) ==
    IF ds = <<>> THEN Zero
    ELSE [kind |-> "fin", neg |-> neg, ds |-> ds, e |-> e]

Zeros(n) == [i \in 1..(IF n > 0 THEN n ELSE 0) |-> 0]

\* the least element of a set of integers that is not empty
MinOf(S) == CHOOSE i \in S : \A j \in S : i <= j
\* the greatest
MaxOf(S) == CHOOSE i \in S : \A j \in S : i >= j

\* the number of zeros in front of the first other digit of ds
LeadingZeros(ds) ==
    IF \A i \in 1..Len(ds) : ds[i] = 0 THEN Len(ds)
    ELSE MinOf({i \in 1..Len(ds) : ds[i] # 0}) - 1

\* the number of zeros behind the last other digit of ds
TrailingZeros(ds) ==
    IF \A i \in 1..Len(ds) : ds[i] = 0 THEN Len(ds)
    ELSE Len(ds) - MaxOf({i \in 1..Len(ds) : ds[i] # 0})

\* the decimal 0.ds x 10^e for any digits ds, lead of them leading zeros
Stripped(neg, ds, e, lead) ==
    Finite(neg, SubSeq(ds, lead + 1, Len(ds) - TrailingZeros(ds)), e - lead)

Decimal(neg, ds, e) == Stripped(neg, ds, e, LeadingZeros(ds))

\* the digits of the natural number n
RECURSIVE NatDigits(_)
NatDigits(n) ==
    IF n = 0 THEN <<>> ELSE Append(NatDigits(n \div 10), n % 10)

\* the number v / 10^6 of a source literal with at most six decimals
Millionths(v) == Decimal(v < 0, NatDigits(Abs(v)), Len(NatDigits(Abs(v))) - 6)

IsZero(x) == x.kind = "fin" /\ x.ds = <<>>
\* x > 0, x < 0
Positive(x) == x.kind # "nan" /\ ~x.neg /\ ~IsZero(x)
Negative(x) == x.kind # "nan" /\ x.neg
\* ToBoolean(x)
Truthy(x) == x.kind # "nan" /\ ~IsZero(x)
\* -x
Negated(x) == IF x.kind = "nan" \/ IsZero(x) THEN x ELSE [x EXCEPT !.neg = ~@]

(***************************************************************************)
(* Decimal to double and back, on naturals written as digit sequences.     *)
(***************************************************************************)
\* 2^52 and 2^53: the mantissa m of a normal double m x 2^b lies between
TwoTo52 == <<4,5,0,3,5,9,9,6,2,7,3,7,0,4,9,6>>
TwoTo53 == <<9,0,0,7,1,9,9,2,5,4,7,4,0,9,9,2>>
\* the least b of a double m x 2^b, and the greatest
MinBinaryExponent == -1074
MaxBinaryExponent == 971

\* 2 x ds
Twice(ds) ==
    (IF ds # <<>> /\ ds[1] >= 5 THEN <<1>> ELSE <<>>)
    \o [i \in 1..Len(ds) |->
           (2 * ds[i] + (IF i < Len(ds) /\ ds[i + 1] >= 5 THEN 1 ELSE 0)) % 10]

\* ds without one leading zero
DropZero(ds) == IF ds # <<>> /\ ds[1] = 0 THEN Tail(ds) ELSE ds

\* ds / 2, rounded down, in the places of ds
HalfDigits(ds) ==
    <<>> \o [i \in 1..Len(ds) |->
                (ds[i] + (IF i > 1 /\ ds[i - 1] % 2 = 1 THEN 10 ELSE 0)) \div 2]

\* 5 x ds
TimesFive(ds) == DropZero(HalfDigits(Append(ds, 0)))

\* ds + 1
RECURSIVE Succ(_)
Succ(ds) ==
    IF ds = <<>> THEN <<1>>
    ELSE IF ds[Len(ds)] < 9 THEN [ds EXCEPT ![Len(ds)] = @ + 1]
    ELSE Append(Succ(SubSeq(ds, 1, Len(ds) - 1)), 0)

\* the order of two digit sequences of one length, decided at the first
\* place i where they differ: -1, 0 or 1
OrderAt(a, b, i) == IF a[i] < b[i] THEN -1 ELSE 1
CmpDigits(a, b) ==
    IF a = b THEN 0
    ELSE OrderAt(a, b, MinOf({i \in 1..Len(a) : a[i] # b[i]}))

\* the order of two naturals
CmpNat(a, b) ==
    IF Len(a) < Len(b) THEN -1
    ELSE IF Len(a) > Len(b) THEN 1
    ELSE CmpDigits(a, b)

\* a fixed-point magnitude: the natural D with its last s digits behind
\* the point
Fix(D, s) == [D |-> D, s |-> s]

Min(a, b) == IF a <= b THEN a ELSE b

\* D without its z last digits
Shortened(D, s, z) == Fix(SubSeq(D, 1, Len(D) - z), s - z)

\* the zeros at the end of the digits behind the point are dropped
Trim(D, s) == Shortened(D, s, Min(s, TrailingZeros(D)))

\* the digits in front of the point, and the first digit behind it
IntDigits(x) == SubSeq(x.D, 1, Len(x.D) - x.s)
FirstFraction(x) ==
    IF x.s = 0 \/ Len(x.D) < x.s THEN 0 ELSE x.D[Len(x.D) - x.s + 1]

\* the magnitude 0.ds x 10^e as a fixed-point magnitude
FixOf(ds, e) ==
    IF e >= Len(ds) THEN Fix(ds \o Zeros(e - Len(ds)), 0)
    ELSE Fix(ds, Len(ds) - e)

\* 2^k x ds, k >= 1: by halves of k, the first half worked out before
\* the second is begun, which keeps the evaluation shallow
RECURSIVE TwiceTimes(_, _)
TwiceMore(ds, k) == IF Len(ds) = 0 THEN ds ELSE TwiceTimes(ds, k)
TwiceTimes(ds, k) ==
    IF k = 1 THEN Twice(ds)
    ELSE TwiceMore(TwiceTimes(ds, k \div 2), k - k \div 2)

\* 5^k x ds, k >= 1
RECURSIVE FiveTimes(_, _)
FiveMore(ds, k) == IF Len(ds) = 0 THEN ds ELSE FiveTimes(ds, k)
FiveTimes(ds, k) ==
    IF k = 1 THEN TimesFive(ds)
    ELSE FiveMore(FiveTimes(ds, k \div 2), k - k \div 2)

\* 2^44, 2^61 and 2^117
TwoTo44 == <<1,7,5,9,2,1,8,6,0,4,4,4,1,6>>
TwoTo61 == <<2,3,0,5,8,4,3,0,0,9,2,1,3,6,9,3,9,5,2>>
TwoTo117 == <<1,6,6,1,5,3,4,9,9,4,7,3,1,1,4,4,8,4,1,1,2,9,7,5,8,8,2,5,3,5,
              0,4,3,0,7,2>>

\* x halved k times and doubled k times
Halved(x, k) == Trim(FiveTimes(x.D, k), x.s + k)
Doubled(x, k) == Trim(TwiceTimes(x.D, k), x.s)

\* x = y x 2^b with the integer part of y in [2^52, 2^53), or below 2^52
\* for b = MinBinaryExponent: x is halved or doubled until it is there,
\* 64 or 8 times in one step while it is far off
RECURSIVE Scaled(_, _)
Scaled(x, b) ==
    IF CmpNat(IntDigits(x), TwoTo117) >= 0 THEN Scaled(Halved(x, 64), b + 64)
    ELSE IF CmpNat(IntDigits(x), TwoTo61) >= 0 THEN Scaled(Halved(x, 8), b + 8)
    ELSE IF CmpNat(IntDigits(x), TwoTo53) >= 0 THEN Scaled(Halved(x, 1), b + 1)
    ELSE IF b - 64 >= MinBinaryExponent /\ Len(x.D) <= x.s - 4
        THEN Scaled(Doubled(x, 64), b - 64)
    ELSE IF b - 8 >= MinBinaryExponent /\ CmpNat(IntDigits(x), TwoTo44) < 0
        THEN Scaled(Doubled(x, 8), b - 8)
    ELSE IF b > MinBinaryExponent /\ CmpNat(IntDigits(x), TwoTo52) < 0
        THEN Scaled(Doubled(x, 1), b - 1)
    ELSE [x |-> x, b |-> b]

\* round to nearest, ties to even: whether the integer part of x is
\* rounded up
RoundsUp(x) ==
    /\ x.s > 0
    /\ \/ FirstFraction(x) > 5
       \/ FirstFraction(x) = 5 /\ x.s > 1
       \/ /\ FirstFraction(x) = 5
          /\ IntDigits(x) # <<>>
          /\ IntDigits(x)[Len(IntDigits(x))] % 2 = 1

\* the double m x 2^b; dir tells whether it is below (-1), at (0) or above
\* (1) the decimal it was rounded from
Binary(m, b, dir) ==
    IF m = <<>> THEN [cls |-> "zero", m |-> <<>>, b |-> 0, dir |-> dir]
    ELSE IF m = TwoTo53 THEN
        IF b + 1 > MaxBinaryExponent
        THEN [cls |-> "inf", m |-> <<>>, b |-> 0, dir |-> dir]
        ELSE [cls |-> "fin", m |-> TwoTo52, b |-> b + 1, dir |-> dir]
    ELSE IF b > MaxBinaryExponent
        THEN [cls |-> "inf", m |-> <<>>, b |-> 0, dir |-> dir]
        ELSE [cls |-> "fin", m |-> m, b |-> b, dir |-> dir]

Rounded(y) ==
    IF RoundsUp(y.x) THEN Binary(Succ(IntDigits(y.x)), y.b, 1)
    ELSE Binary(IntDigits(y.x), y.b, IF y.x.s > 0 THEN -1 ELSE 0)

\* the double nearest to the magnitude 0.ds x 10^e, ds # <<>>.  A
\* magnitude of 10^309 or more is above every double, one below 10^-324
\* is nearer to 0 than to the least double.
ToDouble(ds, e) ==
    IF e > 309 THEN Binary(TwoTo53, MaxBinaryExponent, 1)
    ELSE IF e < -323 THEN Binary(<<>>, 0, -1)
    ELSE Rounded(Scaled(FixOf(ds, e), 0))

\* the exact value m x 2^b of the double d
ExactOf(d) ==
    IF d.b > 0 THEN Fix(TwiceTimes(d.m, d.b), 0)
    ELSE IF d.b < 0 THEN Trim(FiveTimes(d.m, -d.b), -d.b)
    ELSE Fix(d.m, 0)

\* the n digits ds, or n + 1 after a carry, in front of the place e
Carried(ds, e, n) == Decimal(FALSE, ds, e + Len(ds) - n)

\* whether the digits D are nearer to the next number of n digits than to
\* their first n digits, or as near with an odd n-th digit
NearerNext(D, n) ==
    \/ D[n + 1] > 5
    \/ D[n + 1] = 5 /\ Len(D) > n + 1
    \/ D[n + 1] = 5 /\ Len(D) = n + 1 /\ D[n] % 2 = 1

\* the first n digits of the fixed-point magnitude x, and the next number
\* of n digits: the two decimals of n digits that x lies between
DecimalBelow(x, n) == Decimal(FALSE, SubSeq(x.D, 1, n), Len(x.D) - x.s)
DecimalAbove(x, n) == Carried(Succ(SubSeq(x.D, 1, n)), Len(x.D) - x.s, n)

\* the fixed-point magnitude x rounded to n significant digits, the even
\* one of two nearest
RoundedTo(x, n) ==
    IF Len(x.D) <= n THEN Decimal(FALSE, x.D, Len(x.D) - x.s)
    ELSE IF NearerNext(x.D, n) THEN DecimalAbove(x, n)
    ELSE DecimalBelow(x, n)

\* the other decimal of n digits next to x
FartherOf(x, n) ==
    IF Len(x.D) <= n THEN Decimal(FALSE, x.D, Len(x.D) - x.s)
    ELSE IF NearerNext(x.D, n) THEN DecimalBelow(x, n)
    ELSE DecimalAbove(x, n)

SameDouble(t, d) == t.cls = "fin" /\ t.m = d.m /\ t.b = d.b

\* whether the decimal c is read as the double d
ReadsAs(c, d) == SameDouble(ToDouble(c.ds, c.e), d)

\* Number::toString's digits: the decimal of the fewest digits, from n
\* digits on, that is read as the double d, whose exact value is x, and
\* of two such decimals the one nearer to x.  A decimal of n digits that
\* is read as d is one of the two next to x: c is the nearer and o the
\* other, which is read as d without c only where the doubles below d
\* lie closer than those above (d a power of 2).  Seventeen digits tell
\* any two doubles apart.
RECURSIVE Shortest(_, _, _)
ShortestOr(d, x, n, c, o) ==
    IF n >= 17 \/ ReadsAs(c, d) THEN c
    ELSE IF ReadsAs(o, d) THEN o
    ELSE Shortest(d, x, n + 1)
Shortest(d, x, n) == ShortestOr(d, x, n, RoundedTo(x, n), FartherOf(x, n))

\* the fewest digits a search begins with: a normal double is the double
\* of at most one decimal of 15 digits, and so are its shorter decimals
FewestDigits(d) ==
    IF d.b = MinBinaryExponent /\ CmpNat(d.m, TwoTo52) < 0 THEN 1 ELSE 15

\* the Number of the double d, of sign neg
OfDouble(neg, d) ==
    CASE d.cls = "inf"  -> Infinite(neg)
      [] d.cls = "zero" -> Zero
      [] OTHER ->
            [Shortest(d, ExactOf(d), FewestDigits(d)) EXCEPT !.neg = neg]

\* the Number for the mathematical value of the decimal c (the double
\* nearest to it).  A decimal of at most 15 digits within the range of the
\* normal doubles, from 10^-307 to 10^308, is the shortest decimal of its
\* double.
NumberOf(c) ==
    IF c.ds = <<>> THEN Zero
    ELSE IF Len(c.ds) <= 15 /\ c.e >= -306 /\ c.e <= 308 THEN c
    ELSE OfDouble(c.neg, ToDouble(c.ds, c.e))

(***************************************************************************)
(* Number::toString and Number.prototype.toFixed(2).                       *)
(***************************************************************************)
\* the characters of the digits ds
DigitString(ds) == [i \in 1..Len(ds) |-> DigitChar(ds[i])]

\* "e+x" or "e-x" for the exponent x
ExponentString(x) ==
    <<"e", IF x < 0 THEN "-" ELSE "+">> \o NatToChars(Abs(x))

\* the fraction digits behind ".", nothing when there is none
FractionChars(frac) == IF frac = <<>> THEN <<>> ELSE <<".">> \o frac

\* Number::toString of a positive finite number with digits ds (k of them)
\* and n = e digits in front of the point
MagnitudeToString(ds, n) ==
    IF Len(ds) <= n /\ n <= 21
        THEN DigitString(ds \o Zeros(n - Len(ds)))
    ELSE IF 0 < n /\ n <= 21
        THEN DigitString(SubSeq(ds, 1, n)) \o <<".">>
             \o DigitString(SubSeq(ds, n + 1, Len(ds)))
    ELSE IF -6 < n /\ n <= 0
        THEN <<"0", ".">> \o DigitString(Zeros(-n) \o ds)
    ELSE <<DigitChar(ds[1])>> \o FractionChars(DigitString(Tail(ds)))
         \o ExponentString(n - 1)

\* Number::toString (radix 10)
NumberToString(x) ==
    CASE x.kind = "nan" -> <<"N","a","N">>
      [] x.kind = "inf" ->
            (IF x.neg THEN <<"-">> ELSE <<>>)
            \o <<"I","n","f","i","n","i","t","y">>
      [] IsZero(x) -> <<"0">>
      [] OTHER ->
            (IF x.neg THEN <<"-">> ELSE <<>>) \o MagnitudeToString(x.ds, x.e)

\* the digits p with a point in front of the last two
PointBeforeLastTwo(p) ==
    DigitString(SubSeq(p, 1, Len(p) - 2)) \o <<".">>
    \o DigitString(SubSeq(p, Len(p) - 1, Len(p)))

\* n hundredths written with two decimals and at least one digit in front
Hundredths(n) == PointBeforeLastTwo(Zeros(3 - Len(n)) \o n)

\* the first e + 2 digits of 0.ds x 10^e: its whole hundredths
WholeHundredths(ds, e) ==
    IF e + 2 <= 0 THEN <<>>
    ELSE IF Len(ds) <= e + 2 THEN ds \o Zeros(e + 2 - Len(ds))
    ELSE SubSeq(ds, 1, e + 2)

\* whether the double of shortest decimal 0.ds x 10^e, below 10^13, is
\* nearer to the next hundredth, or as near (the larger one is taken).
\* The shortest decimal lies on the same side of the midpoint as the
\* double; when it is the midpoint, the double itself decides.
NearerNextHundredth(ds, e) ==
    /\ e + 3 >= 1
    /\ e + 3 <= Len(ds)
    /\ \/ ds[e + 3] > 5
       \/ ds[e + 3] = 5 /\ Len(ds) > e + 3
       \/ ds[e + 3] = 5 /\ Len(ds) = e + 3 /\ ToDouble(ds, e).dir >= 0

\* the hundredths nearest to the exact magnitude x, the larger of two
ExactHundredths(x) ==
    IF x.s <= 2 THEN x.D \o Zeros(2 - x.s)
    ELSE IF Len(x.D) >= x.s - 2 /\ x.D[Len(x.D) - x.s + 3] >= 5
        THEN Succ(SubSeq(x.D, 1, Len(x.D) - x.s + 2))
    ELSE SubSeq(x.D, 1, Len(x.D) - x.s + 2)

\* the integer n for which n / 100 - x is as close to zero as possible,
\* the larger n of two, for the magnitude x of shortest decimal 0.ds x 10^e
NearestHundredths(ds, e) ==
    IF e > 13 THEN ExactHundredths(ExactOf(ToDouble(ds, e)))
    ELSE IF NearerNextHundredth(ds, e) THEN Succ(WholeHundredths(ds, e))
    ELSE WholeHundredths(ds, e)

\* a variant of toFixed2: the digits after the second decimal are cut off
toFixed2Truncating(x) ==
    CASE x.kind # "fin" \/ x.e > 21 -> NumberToString(x)
      [] OTHER ->
            (IF x.neg THEN <<"-">> ELSE <<>>)
            \o Hundredths(WholeHundredths(x.ds, x.e))

\* Number.prototype.toFixed(2)
toFixed2(x) ==
    CASE x.kind # "fin" \/ x.e > 21 -> NumberToString(x)
      [] OTHER ->
            (IF x.neg THEN <<"-">> ELSE <<>>)
            \o Hundredths(NearestHundredths(x.ds, x.e))

(***************************************************************************)
(* Subtraction.                                                            *)
(***************************************************************************)
\* whether the places behind i of a + b carry into place i (a and b of
\* one length): a place with a sum over 9 behind places with the sum 9
CarryInto(a, b, i) ==
    \E j \in (i + 1)..Len(a) :
        a[j] + b[j] >= 10 /\ \A k \in (i + 1)..(j - 1) : a[k] + b[k] = 9

\* a + b for naturals a, b of one length
Sum(a, b) ==
    (IF CarryInto(a, b, 0) THEN <<1>> ELSE <<>>)
    \o [i \in 1..Len(a) |->
           (a[i] + b[i] + (IF CarryInto(a, b, i) THEN 1 ELSE 0)) % 10]

\* whether the places behind i of a - b borrow from place i
BorrowFrom(a, b, i) ==
    \E j \in (i + 1)..Len(a) :
        a[j] < b[j] /\ \A k \in (i + 1)..(j - 1) : a[k] = b[k]

\* a - b for naturals a >= b of one length
Difference(a, b) ==
    <<>> \o [i \in 1..Len(a) |->
                (a[i] - b[i] - (IF BorrowFrom(a, b, i) THEN 1 ELSE 0) + 10) % 10]

\* the exact value of the finite number x # 0: an integer below 10^15 is
\* its own shortest decimal
ExactValue(x) ==
    IF x.e >= Len(x.ds) /\ x.e <= 15 THEN FixOf(x.ds, x.e)
    ELSE ExactOf(ToDouble(x.ds, x.e))

\* the digits of the exact magnitude x with s digits behind the point, in
\* n places
Aligned(x, s, n) == Zeros(n - (Len(x.D) + s - x.s)) \o x.D \o Zeros(s - x.s)

Max(a, b) == IF a >= b THEN a ELSE b

\* the number nearest to the natural ds with s digits behind the point
NearestTo(neg, ds, s) == NumberOf(Decimal(neg, ds, Len(ds) - s))

\* the sum of the magnitudes pa and pb (n places, s behind the point) with
\* signs an and bn, rounded to the nearest double
SumAligned(an, pa, bn, pb, n, s) ==
    IF an = bn THEN NearestTo(an, Sum(pa, pb), s)
    ELSE IF CmpDigits(pa, pb) >= 0 THEN NearestTo(an, Difference(pa, pb), s)
    ELSE NearestTo(bn, Difference(pb, pa), s)

SumIn(an, a, bn, b, n, s) ==
    SumAligned(an, Aligned(a, s, n), bn, Aligned(b, s, n), n, s)

\* the sum of the exact magnitudes a and b with signs an and bn
SumExact(an, a, bn, b) ==
    SumIn(an, a, bn, b,
          Max(Max(Len(a.D) - a.s, Len(b.D) - b.s), 0) + Max(a.s, b.s),
          Max(a.s, b.s))

\* a - b on numbers
Minus(a, b) ==
    CASE a.kind = "nan" \/ b.kind = "nan" -> NaN
      [] a.kind = "inf" /\ b.kind = "inf" ->
            IF a.neg = b.neg THEN NaN ELSE a
      [] a.kind = "inf" -> a
      [] b.kind = "inf" -> Negated(b)
      [] IsZero(b) -> a
      [] IsZero(a) -> Negated(b)
      [] OTHER -> SumExact(a.neg, ExactValue(a), ~b.neg, ExactValue(b))

(***************************************************************************)
(* The order of numbers.                                                   *)
(***************************************************************************)
\* |a| < |b|
MagnitudeLess(a, b) ==
    CASE a.kind = "inf" -> FALSE
      [] b.kind = "inf" -> TRUE
      [] IsZero(b) -> FALSE
      [] IsZero(a) -> TRUE
      [] a.e # b.e -> a.e < b.e
      [] OTHER -> CmpDigits(a.ds \o Zeros(Len(b.ds) - Len(a.ds)),
                            b.ds \o Zeros(Len(a.ds) - Len(b.ds))) < 0

\* a < b
Less(a, b) ==
    /\ a.kind # "nan"
    /\ b.kind # "nan"
    /\ IF a.neg # b.neg THEN a.neg
       ELSE IF a.neg THEN MagnitudeLess(b, a)
       ELSE MagnitudeLess(a, b)

\* a <= b
AtMost(a, b) == a.kind # "nan" /\ b.kind # "nan" /\ ~Less(b, a)

\* |x|
Magnitude(x) == [x EXCEPT !.neg = FALSE]

(***************************************************************************)
(* parseFloat.                                                             *)
(***************************************************************************)
\* first index >= i of s that holds no digit
DigitsEnd(s, i) ==
    MinOf({j \in i..(Len(s) + 1) : j > Len(s) \/ ~IsDigit(s[j])})

\* first index >= i of s that holds no white space
SkipWhiteSpace(s, i) ==
    MinOf({j \in i..(Len(s) + 1) : j > Len(s) \/ s[j] \notin WhiteSpaceChars})

\* the digits s[i..j-1]
DigitsOf(s, i, j) == [k \in 1..(j - i) |-> DigitVal(s[i + k - 1])]

\* the natural number of the digits ds
RECURSIVE NatOf(_)
NatOf(ds) ==
    IF ds = <<>> THEN 0
    ELSE 10 * NatOf(SubSeq(ds, 1, Len(ds) - 1)) + ds[Len(ds)]

\* the exponent written by the digits ds; one of more than five digits is
\* beyond every double either way
ExponentValue(ds) ==
    IF Len(ds) - LeadingZeros(ds) > 5 THEN 99999
    ELSE NatOf(SubSeq(ds, LeadingZeros(ds) + 1, Len(ds)))

\* the exponent whose digits stand at j, of sign neg
SignedExponent(s, j, neg) ==
    (IF neg THEN -1 ELSE 1) * ExponentValue(DigitsOf(s, j, DigitsEnd(s, j)))

\* ExponentPart at i: [eE] [+-] digits; 0 when there is none
ExponentAt(s, i) ==
    IF i <= Len(s) /\ s[i] \in {"e", "E"}
    THEN SignedExponent(s,
             IF i + 1 <= Len(s) /\ s[i + 1] \in {"+", "-"} THEN i + 2 ELSE i + 1,
             i + 1 <= Len(s) /\ s[i + 1] = "-")
    ELSE 0

\* the number read with the integer digits s[i1..i2-1] and the mantissa
\* ending in front of i3 (behind the fraction digits, if there is a "." at
\* i2); NaN when the mantissa holds no digit
ReadNumber(s, neg, i1, i2, i3) ==
    IF i3 - i1 = 0 \/ (i3 - i1 = 1 /\ i2 = i1) THEN NaN
    ELSE NumberOf(Decimal(neg,
                          DigitsOf(s, i1, i2)
                          \o (IF i3 > i2 THEN DigitsOf(s, i2 + 1, i3) ELSE <<>>),
                          i2 - i1 + ExponentAt(s, i3)))

\* the fraction: the digits behind a "." at i2, if there is one
ReadFraction(s, neg, i1, i2) ==
    ReadNumber(s, neg, i1, i2,
               IF i2 <= Len(s) /\ s[i2] = "." THEN DigitsEnd(s, i2 + 1) ELSE i2)

\* whether the characters t stand in s at i
StartsAt(s, i, t) ==
    i + Len(t) - 1 <= Len(s) /\ SubSeq(s, i, i + Len(t) - 1) = t

\* StrUnsignedDecimalLiteral at i1: Infinity, or a mantissa
ReadMantissa(s, neg, i1) ==
    IF StartsAt(s, i1, <<"I","n","f","i","n","i","t","y">>) THEN Infinite(neg)
    ELSE ReadFraction(s, neg, i1, DigitsEnd(s, i1))

\* the sign at i0, if there is one
ReadSigned(s, i0) ==
    ReadMantissa(s, i0 <= Len(s) /\ s[i0] = "-",
                 IF i0 <= Len(s) /\ s[i0] \in {"+", "-"} THEN i0 + 1 ELSE i0)

\* parseFloat of a string: leading white space is skipped, then the
\* longest prefix that is a StrDecimalLiteral is read: [+-] Infinity, or
\* [+-] digits [. digits] [(e|E) [+-] digits] with a digit in the
\* mantissa; NaN when there is no such prefix
parseFloatStr(s) == ReadSigned(s, SkipWhiteSpace(s, 1))

(***************************************************************************)
(* Cells and rows.  A cell is a value of an input row: a text, a number    *)
(* (a numeric spreadsheet cell) or undefined.                              *)
(***************************************************************************)
Text(s) == [t |-> "str", s |-> s, n |-> Zero]
Num(n)  == [t |-> "num", s |-> <<>>, n |-> n]
Undefined == [t |-> "undef", s |-> <<>>, n |-> Zero]

\* ToString of a cell value, as String(v) and parseFloat(v) apply it
String(v) ==
    CASE v.t = "str" -> v.s
      [] v.t = "num" -> NumberToString(v.n)
      [] OTHER       -> <<"u","n","d","e","f","i","n","e","d">>

\* parseFloat(v): the argument is converted to a string first
parseFloat(v) == parseFloatStr(String(v))

\* 2^32 - 2, the greatest array index
MaxArrayIndex == <<4,2,9,4,9,6,7,2,9,4>>

\* A key is an array index (it enumerates before the other keys, in
\* ascending order) when it is the canonical decimal form of an integer
\* below 2^32 - 1.
IsArrayIndex(k) ==
    /\ Len(k) \in 1..10
    /\ \A i \in 1..Len(k) : IsDigit(k[i])
    /\ (Len(k) = 1 \/ k[1] # "0")
    /\ CmpNat(DigitsOf(k, 1, Len(k) + 1), MaxArrayIndex) <= 0

\* whether the array index k is below the array index l
IndexBelow(k, l) ==
    CmpNat(DigitsOf(k, 1, Len(k) + 1), DigitsOf(l, 1, Len(l) + 1)) < 0

\* insert key k into the ascending sequence ks of array-index keys
RECURSIVE InsertIndexKey(_, _)
InsertIndexKey(ks, k) ==
    IF ks = <<>> THEN <<k>>
    ELSE IF IndexBelow(k, ks[1]) THEN <<k>> \o ks
         ELSE <<ks[1]>> \o InsertIndexKey(Tail(ks), k)

RECURSIVE SortIndexKeys(_)
SortIndexKeys(ks) ==
    IF ks = <<>> THEN <<>>
    ELSE InsertIndexKey(SortIndexKeys(SubSeq(ks, 1, Len(ks) - 1)), ks[Len(ks)])

\* the keys of obj in insertion order
InsertionKeys(obj) == [i \in 1..Len(obj) |-> obj[i].k]

\* array-index keys ascending, then the other keys in insertion order
EnumerationOrder(ks) ==
    SortIndexKeys(SelectSeq(ks, IsArrayIndex))
    \o SelectSeq(ks, LAMBDA k : ~IsArrayIndex(k))

\* Object.keys(obj)
ObjectKeys(obj) == EnumerationOrder(InsertionKeys(obj))

\* whether obj has an own property k
HasKey(obj, k) == \E i \in 1..Len(obj) : obj[i].k = k

\* obj[k] for an own property k
Get(obj, k) == obj[CHOOSE i \in 1..Len(obj) : obj[i].k = k].v

\* a row is null or an object
NullRow == [isNull |-> TRUE, obj |-> <<>>]
Row(obj) == [isNull |-> FALSE, obj |-> obj]

\* a variant of FirstMatch: the last index >= i of such a key
RECURSIVE LastMatch(_, _, _)
LastMatch(keys, part, i) ==
    IF i > Len(keys) THEN 0
    ELSE IF LastMatch(keys, part, i + 1) # 0 THEN LastMatch(keys, part, i + 1)
         ELSE IF includes(toLowerCase(keys[i]), part) THEN i ELSE 0

\* the first index >= i of keys whose lower-cased key includes part, 0 when
\* there is none
RECURSIVE FirstMatch(_, _, _)
FirstMatch(keys, part, i) ==
    IF i > Len(keys) THEN 0
    ELSE IF includes(toLowerCase(keys[i]), part) THEN i
         ELSE FirstMatch(keys, part, i + 1)

\* the key at index i of keys; found = FALSE (undefined) for i = 0
KeyAt(keys, i) ==
    IF i = 0 THEN [found |-> FALSE, key |-> <<>>]
    ELSE [found |-> TRUE, key |-> keys[i]]

\* Array.prototype.find with the predicate of fuzzyGet: the first key, in
\* enumeration order, whose lower-cased form includes the lower-cased
\* keyPart
FindKey(keys, keyPart) ==
    KeyAt(keys, FirstMatch(keys, toLowerCase(keyPart), 1))

\* isNaN(val) ? 0 : val
NaNToZero(val) == IF val.kind = "nan" THEN Zero ELSE val

\* the tail of fuzzyGet: the number under the matching key; 0 when no key
\* matched, the matching key is the empty string (falsy) or the value
\* does not parse
NumberAt(obj, match) ==
    IF match.found /\ match.key # <<>>
    THEN NaNToZero(parseFloat(Get(obj, match.key)))
    ELSE Zero

\* fuzzyGet(row, keyPart): 0 for a null row, else the number under the
\* first matching key
fuzzyGet(row, keyPart) ==
    IF row.isNull THEN Zero
    ELSE NumberAt(row.obj, FindKey(ObjectKeys(row.obj), keyPart))

\* the tail of fuzzyGetStr: String() of the value under the matching key,
\* the empty string when there is none
StringAt(obj, match) ==
    IF match.found /\ match.key # <<>>
    THEN String(Get(obj, match.key))
    ELSE <<>>

\* fuzzyGetStr(row, keyPart)
fuzzyGetStr(row, keyPart) ==
    IF row.isNull THEN <<>>
    ELSE StringAt(row.obj, FindKey(ObjectKeys(row.obj), keyPart))

\* a variant of OrNum: b unless it is 0 or NaN
OrNumLatter(a, b) == IF Truthy(b) THEN b ELSE a

\* a || b on numbers: a unless it is 0 or NaN
OrNum(a, b) == IF Truthy(a) THEN a ELSE b
\* a || b on strings: a unless it is empty
OrStr(a, b) == IF a # <<>> THEN a ELSE b

(***************************************************************************)
(* ProjectBuilder: the normaliser of imported rows.                        *)
(***************************************************************************)
\* the key parts processImportedData looks up
kSiO2        == <<"S","i","O","2">>
kAl2O3       == <<"A","l","2","O","3">>
kFe          == <<"F","e">>
kFexOy       == <<"F","e","x","O","y">>
kNa2O        == <<"N","a","2","O">>
kK2O         == <<"K","2","O">>
kCaO         == <<"C","a","O">>
kMgO         == <<"M","g","O">>
kTiO2        == <<"T","i","O","2">>
kTemp        == <<"t","e","m","p">>
kTemperature == <<"t","e","m","p","e","r","a","t","u","r","e">>
kViscosity   == <<"v","i","s","c","o","s","i","t","y">>
kLog10       == <<"l","o","g","1","0">>
kValue       == <<"V","a","l","u","e">>
kRemark      == <<"r","e","m","a","r","k">>
kSource      == <<"s","o","u","r","c","e">>
kName        == <<"n","a","m","e">>

\* a variant of SampleIdOf: the 0-based index itself
SampleIdOfZeroBased(idx) == idx

\* the sampleID of the row at 0-based position idx
SampleIdOf(idx) == idx + 1

\* the callback of rawData.map: the ChemicalData built from one row
ParseRow(row, idx) ==
    [sampleID           |-> SampleIdOf(idx),
     SiO2               |-> fuzzyGet(row, kSiO2),
     Al2O3              |-> fuzzyGet(row, kAl2O3),
     FexOy              |-> OrNum(fuzzyGet(row, kFe), fuzzyGet(row, kFexOy)),
     Na2O               |-> fuzzyGet(row, kNa2O),
     K2O                |-> fuzzyGet(row, kK2O),
     CaO                |-> fuzzyGet(row, kCaO),
     MgO                |-> fuzzyGet(row, kMgO),
     TiO2               |-> fuzzyGet(row, kTiO2),
     temperature        |-> OrNum(fuzzyGet(row, kTemp),
                                  fuzzyGet(row, kTemperature)),
     viscosityValue     |-> OrNum(fuzzyGet(row, kViscosity),
                                  OrNum(fuzzyGet(row, kLog10),
                                        fuzzyGet(row, kValue))),
     Remark             |-> OrStr(fuzzyGetStr(row, kRemark),
                                  OrStr(fuzzyGetStr(row, kSource),
                                        fuzzyGetStr(row, kName))),
     actualMeasuredData |-> 1]

\* a variant of ParsedData: null rows are passed over
ParsedDataOfObjects(raw) ==
    [i \in 1..Len(SelectSeq(raw, LAMBDA r : ~r.isNull)) |->
        ParseRow(SelectSeq(raw, LAMBDA r : ~r.isNull)[i], i - 1)]

\* rawData.map((row, idx) => ...)
ParsedData(raw) == [i \in 1..Len(raw) |-> ParseRow(raw[i], i - 1)]

\* a variant of IsValidRow: || in place of &&
IsValidRowEither(d) ==
    Positive(d.temperature) \/ (~IsZero(d.viscosityValue) \/ ~IsZero(d.SiO2))

\* the predicate of parsedData.filter
IsValidRow(d) ==
    Positive(d.temperature) /\ (~IsZero(d.viscosityValue) \/ ~IsZero(d.SiO2))

\* a variant of ValidData: the accepted rows numbered anew
RECURSIVE Renumbered(_, _)
Renumbered(rows, n) ==
    IF rows = <<>> THEN <<>>
    ELSE <<[Head(rows) EXCEPT !.sampleID = n]>>
         \o Renumbered(Tail(rows), n + 1)

ValidDataRenumbered(parsed) == Renumbered(SelectSeq(parsed, IsValidRow), 1)

\* parsedData.filter(...)
ValidData(parsed) == SelectSeq(parsed, IsValidRow)

(***************************************************************************)
(* DataView: signature, grouping, projection.                              *)
(***************************************************************************)
\* getCompositionSignature(row): the eight fields, each (x || 0).toFixed(2),
\* joined by "-"
getCompositionSignature(row) ==
    toFixed2(OrNum(row.SiO2, Zero)) \o <<"-">> \o
    toFixed2(OrNum(row.Al2O3, Zero)) \o <<"-">> \o
    toFixed2(OrNum(row.FexOy, Zero)) \o <<"-">> \o
    toFixed2(OrNum(row.Na2O, Zero)) \o <<"-">> \o
    toFixed2(OrNum(row.K2O, Zero)) \o <<"-">> \o
    toFixed2(OrNum(row.CaO, Zero)) \o <<"-">> \o
    toFixed2(OrNum(row.MgO, Zero)) \o <<"-">> \o
    toFixed2(OrNum(row.TiO2, Zero))

\* variants of PushToGroup: the row replaces the group; the row is put
\* in front of the group
RECURSIVE PushToGroupReplacing(_, _, _)
PushToGroupReplacing(groups, sig, row) ==
    IF Head(groups).k = sig
    THEN <<[k |-> sig, v |-> <<row>>]>> \o Tail(groups)
    ELSE <<Head(groups)>> \o PushToGroupReplacing(Tail(groups), sig, row)

RECURSIVE PushToGroupFront(_, _, _)
PushToGroupFront(groups, sig, row) ==
    IF Head(groups).k = sig
    THEN <<[k |-> sig, v |-> <<row>> \o Head(groups).v]>> \o Tail(groups)
    ELSE <<Head(groups)>> \o PushToGroupFront(Tail(groups), sig, row)

\* groups[sig].push(row) for a key sig of groups
RECURSIVE PushToGroup(_, _, _)
PushToGroup(groups, sig, row) ==
    IF Head(groups).k = sig
    THEN <<[k |-> sig, v |-> Append(Head(groups).v, row)]>> \o Tail(groups)
    ELSE <<Head(groups)>> \o PushToGroup(Tail(groups), sig, row)

\* the groups with a key sig, created empty at the end when missing
WithGroup(groups, sig) ==
    IF HasKey(groups, sig) THEN groups
    ELSE Append(groups, [k |-> sig, v |-> <<>>])

\* the body of data.forEach: create the group of the row's signature when
\* it is missing, then push the row onto it
AddToGroupKeyed(groups, sig, row) ==
    PushToGroup(WithGroup(groups, sig), sig, row)

AddToGroup(groups, row) ==
    AddToGroupKeyed(groups, getCompositionSignature(row), row)

RECURSIVE GroupRows(_, _)
GroupRows(groups, rows) ==
    IF rows = <<>> THEN groups
    ELSE GroupRows(AddToGroup(groups, Head(rows)), Tail(rows))

\* the groupedData memo: {} for no data, else the groups of data.forEach
GroupedData(d) == IF Len(d) = 0 THEN <<>> ELSE GroupRows(<<>>, d)

\* a variant of CompareTemperature: descending
CompareTemperatureDescending(a, b) == Minus(b.temperature, a.temperature)

\* the comparator of the sort of currentData
CompareTemperature(a, b) == Minus(a.temperature, b.temperature)

\* a variant of InsertSorted: a row is placed in front of the rows it
\* compares equal to
RECURSIVE InsertSortedUnstable(_, _)
InsertSortedUnstable(sorted, row) ==
    IF sorted = <<>> THEN <<row>>
    ELSE IF ~Positive(CompareTemperature(row, Head(sorted)))
         THEN <<row>> \o sorted
         ELSE <<Head(sorted)>> \o InsertSortedUnstable(Tail(sorted), row)

\* Array.prototype.sort is stable: a row is placed behind every row that
\* does not compare greater than it
RECURSIVE InsertSorted(_, _)
InsertSorted(sorted, row) ==
    IF sorted = <<>> THEN <<row>>
    ELSE IF Negative(CompareTemperature(row, Head(sorted)))
         THEN <<row>> \o sorted
         ELSE <<Head(sorted)>> \o InsertSorted(Tail(sorted), row)

RECURSIVE SortByTemperature(_)
SortByTemperature(rows) ==
    IF rows = <<>> THEN <<>>
    ELSE InsertSorted(SortByTemperature(SubSeq(rows, 1, Len(rows) - 1)),
                      rows[Len(rows)])

\* a variant of CurrentData: an unknown selection falls back to the first
\* group
CurrentDataDefaulting(groups, sel) ==
    IF groups = <<>> THEN <<>>
    ELSE IF sel = <<>> \/ ~HasKey(groups, sel)
    THEN SortByTemperature(groups[1].v)
    ELSE SortByTemperature(Get(groups, sel))

\* the currentData memo: [] for an empty or unknown selection, else a
\* sorted copy of the selected group
CurrentData(groups, sel) ==
    IF sel = <<>> \/ ~HasKey(groups, sel) THEN <<>>
    ELSE SortByTemperature(Get(groups, sel))

(***************************************************************************)
(* Inputs: the rows a decoded file may hold.                               *)
(***************************************************************************)
E(k, v) == [k |-> k, v |-> v]

\* {SiO2: "53.5", temp: "1488", viscosity: "2.268"}
RowA ==
    Row(<<E(<<"S","i","O","2">>,
            Text(<<"5","3",".","5">>)),
          E(<<"t","e","m","p">>,
            Text(<<"1","4","8","8">>)),
          E(<<"v","i","s","c","o","s","i","t","y">>,
            Text(<<"2",".","2","6","8">>))>>)

\* {SiO2: "53.5", temperature: "1470", log10: "2.232"}
RowB ==
    Row(<<E(<<"S","i","O","2">>,
            Text(<<"5","3",".","5">>)),
          E(<<"t","e","m","p","e","r","a","t","u","r","e">>,
            Text(<<"1","4","7","0">>)),
          E(<<"l","o","g","1","0">>,
            Text(<<"2",".","2","3","2">>))>>)

\* {SIO2_WT: "53.4999994", "Temp(C)": "1450", Log10_Viscosity: "2.28"}
RowNear ==
    Row(<<E(<<"S","I","O","2","_","W","T">>,
            Text(<<"5","3",".","4","9","9","9","9","9","4">>)),
          E(<<"T","e","m","p","(","C",")">>,
            Text(<<"1","4","5","0">>)),
          E(<<"L","o","g","1","0","_","V","i","s","c","o","s","i","t","y">>,
            Text(<<"2",".","2","8">>))>>)

\* {SiO2: "53.506", temp: "1450", Value: "2.1"}
RowOff ==
    Row(<<E(<<"S","i","O","2">>,
            Text(<<"5","3",".","5","0","6">>)),
          E(<<"t","e","m","p">>,
            Text(<<"1","4","5","0">>)),
          E(<<"V","a","l","u","e">>,
            Text(<<"2",".","1">>))>>)

\* {SiO2: "53.5", MgO: "-0.001", temp: "1420", viscosity: "1.5"}
RowNeg ==
    Row(<<E(<<"S","i","O","2">>,
            Text(<<"5","3",".","5">>)),
          E(<<"M","g","O">>,
            Text(<<"-","0",".","0","0","1">>)),
          E(<<"t","e","m","p">>,
            Text(<<"1","4","2","0">>)),
          E(<<"v","i","s","c","o","s","i","t","y">>,
            Text(<<"1",".","5">>))>>)

\* {SiO2: "53.5", MgO: "0.001", temp: "1420", viscosity: "1.2"}
RowPos ==
    Row(<<E(<<"S","i","O","2">>,
            Text(<<"5","3",".","5">>)),
          E(<<"M","g","O">>,
            Text(<<"0",".","0","0","1">>)),
          E(<<"t","e","m","p">>,
            Text(<<"1","4","2","0">>)),
          E(<<"v","i","s","c","o","s","i","t","y">>,
            Text(<<"1",".","2">>))>>)

\* {foo: "bar"}
RowFoo ==
    Row(<<E(<<"f","o","o">>,
            Text(<<"b","a","r">>))>>)

\* {SiO2: "48.2", temp: "-5", viscosity: "1.9"}
RowCold ==
    Row(<<E(<<"S","i","O","2">>,
            Text(<<"4","8",".","2">>)),
          E(<<"t","e","m","p">>,
            Text(<<"-","5">>)),
          E(<<"v","i","s","c","o","s","i","t","y">>,
            Text(<<"1",".","9">>))>>)

\* {MgO: "9.5", temp: "1400"}
RowBare ==
    Row(<<E(<<"M","g","O">>,
            Text(<<"9",".","5">>)),
          E(<<"t","e","m","p">>,
            Text(<<"1","4","0","0">>))>>)

\* "618970019642690137449562112", the digits of 2^89
TwoTo89Text ==
    <<"6","1","8","9","7","0","0","1","9","6","4","2","6","9","0","1","3","7","4","4","9","5","6","2","1","1","2">>

\* {Remark: "Tiny", MgO: 9.5, TiO2: 1.005, temp: "\f1e3",
\*  viscosityValue: 6e-7}, the numbers being numeric cells
RowTiny ==
    Row(<<E(<<"R","e","m","a","r","k">>,
            Text(<<"T","i","n","y">>)),
          E(<<"M","g","O">>,
            Num(Millionths(9500000))),
          E(<<"T","i","O","2">>,
            Num(Millionths(1005000))),
          E(<<"t","e","m","p">>,
            Text(<<"\f","1","e","3">>)),
          E(<<"v","i","s","c","o","s","i","t","y","V","a","l","u","e">>,
            Num(Decimal(FALSE, <<6>>, -6)))>>)

\* {"SiO2 (note)": "n/a", SiO2: "53.5", temp: "1460", viscosity: "2.2"}
RowDup ==
    Row(<<E(<<"S","i","O","2"," ","(","n","o","t","e",")">>,
            Text(<<"n","/","a">>)),
          E(<<"S","i","O","2">>,
            Text(<<"5","3",".","5">>)),
          E(<<"t","e","m","p">>,
            Text(<<"1","4","6","0">>)),
          E(<<"v","i","s","c","o","s","i","t","y">>,
            Text(<<"2",".","2">>))>>)

\* {"Temp(C)": "1450", temperature: "9", SiO2_raw: "51.2", SiO2: "50", viscosity: "2"}
RowRank ==
    Row(<<E(<<"T","e","m","p","(","C",")">>,
            Text(<<"1","4","5","0">>)),
          E(<<"t","e","m","p","e","r","a","t","u","r","e">>,
            Text(<<"9">>)),
          E(<<"S","i","O","2","_","r","a","w">>,
            Text(<<"5","1",".","2">>)),
          E(<<"S","i","O","2">>,
            Text(<<"5","0">>)),
          E(<<"v","i","s","c","o","s","i","t","y">>,
            Text(<<"2">>))>>)

\* {Fe_note: "total", FexOy: "10.6", SiO2: "48.2", temp_unit: "C", temperature: "1470", Value: "1.9", source: "lab"}
RowFeNote ==
    Row(<<E(<<"F","e","_","n","o","t","e">>,
            Text(<<"t","o","t","a","l">>)),
          E(<<"F","e","x","O","y">>,
            Text(<<"1","0",".","6">>)),
          E(<<"S","i","O","2">>,
            Text(<<"4","8",".","2">>)),
          E(<<"t","e","m","p","_","u","n","i","t">>,
            Text(<<"C">>)),
          E(<<"t","e","m","p","e","r","a","t","u","r","e">>,
            Text(<<"1","4","7","0">>)),
          E(<<"V","a","l","u","e">>,
            Text(<<"1",".","9">>)),
          E(<<"s","o","u","r","c","e">>,
            Text(<<"l","a","b">>))>>)

\* {name: "Etna", Remark: "", SiO2: "47", temp: "1400", viscosity: "0", log10: "2.5"}
RowName ==
    Row(<<E(<<"n","a","m","e">>,
            Text(<<"E","t","n","a">>)),
          E(<<"R","e","m","a","r","k">>,
            Text(<<>>)),
          E(<<"S","i","O","2">>,
            Text(<<"4","7">>)),
          E(<<"t","e","m","p">>,
            Text(<<"1","4","0","0">>)),
          E(<<"v","i","s","c","o","s","i","t","y">>,
            Text(<<"0">>)),
          E(<<"l","o","g","1","0">>,
            Text(<<"2",".","5">>))>>)

\* {Fe: "1e-7", FexOy: "10.6", SiO2: "Infinity", temp: "1.45e3",
\*  viscosity: "-0.0000001", Value: "1.9",
\*  K2O: "618970019642690137449562112"}
RowSci ==
    Row(<<E(<<"F","e">>,
            Text(<<"1","e","-","7">>)),
          E(<<"F","e","x","O","y">>,
            Text(<<"1","0",".","6">>)),
          E(<<"S","i","O","2">>,
            Text(<<"I","n","f","i","n","i","t","y">>)),
          E(<<"t","e","m","p">>,
            Text(<<"1",".","4","5","e","3">>)),
          E(<<"v","i","s","c","o","s","i","t","y">>,
            Text(<<"-","0",".","0","0","0","0","0","0","1">>)),
          E(<<"V","a","l","u","e">>,
            Text(<<"1",".","9">>)),
          E(<<"K","2","O">>,
            Text(TwoTo89Text))>>)

\* the rows that name a field more than once or through a later
\* candidate, the row of numbers in other notations, and the row that is
\* null
ResolvePool ==
    {RowDup, RowRank, RowFeNote, RowName, RowNear, RowFoo, RowSci, NullRow}

\* the sequences of at most MaxRows of these rows
ResolveSeqs == UNION {[1..n -> ResolvePool] : n \in 0..MaxRows}

\* the rows the imported sheets are made of
RowPool ==
    {RowA, RowB, RowNear, RowOff, RowNeg, RowPos, RowCold, RowBare, RowTiny}

\* the row sequences of at most MaxRows rows
RowSeqs == UNION {[1..n -> RowPool] : n \in 0..MaxRows}

(***************************************************************************)
(* Delimited text: the decoding of handleFileUpload's text branch.         *)
(***************************************************************************)
\* s.split(sep) for a separator of one character, from position i on,
\* piece being the characters since the last separator
RECURSIVE SplitFrom(_, _, _, _)
SplitFrom(s, sep, i, piece) ==
    IF i > Len(s) THEN <<piece>>
    ELSE IF s[i] = sep THEN <<piece>> \o SplitFrom(s, sep, i + 1, <<>>)
    ELSE SplitFrom(s, sep, i + 1, Append(piece, s[i]))

split(s, sep) == SplitFrom(s, sep, 1, <<>>)

\* s.trim()
RECURSIVE TrimStart(_)
TrimStart(s) ==
    IF s # <<>> /\ Head(s) \in WhiteSpaceChars THEN TrimStart(Tail(s)) ELSE s

RECURSIVE TrimEnd(_)
TrimEnd(s) ==
    IF s # <<>> /\ s[Len(s)] \in WhiteSpaceChars
    THEN TrimEnd(SubSeq(s, 1, Len(s) - 1))
    ELSE s

trim(s) == TrimEnd(TrimStart(s))

\* a variant of NonBlankRows: only the empty lines are dropped
NonEmptyRows(lines) == SelectSeq(lines, LAMBDA r : r # <<>>)

\* text.split('\n').filter(r => r.trim() !== '') on the split lines
NonBlankRows(lines) == SelectSeq(lines, LAMBDA r : trim(r) # <<>>)

\* rows[0].split(',').map(h => h.trim()) on the split header line
TrimAll(parts) == [i \in 1..Len(parts) |-> trim(parts[i])]

\* obj[k] = v on an object literal, v a string or undefined: a present
\* key keeps its place; "__proto__" names the prototype setter, which
\* ignores such a v and adds no property
SetKey(obj, k, v) ==
    IF k = <<"_","_","p","r","o","t","o","_","_">> THEN obj
    ELSE IF HasKey(obj, k)
    THEN [i \in 1..Len(obj) |->
             IF obj[i].k = k THEN E(k, v) ELSE obj[i]]
    ELSE Append(obj, E(k, v))

\* values[i] of the source, i counting from 1 here: undefined past the end
ValueAt(values, i) ==
    IF i <= Len(values) THEN Text(values[i]) ELSE Undefined

\* headers.forEach((h, i) => { obj[h] = values[i]; }) from header i on
RECURSIVE FillObject(_, _, _, _)
FillObject(obj, headers, values, i) ==
    IF i > Len(headers) THEN obj
    ELSE FillObject(SetKey(obj, headers[i], ValueAt(values, i)),
                    headers, values, i + 1)

\* the callback of rows.slice(1).map
LineObject(headers, rowStr) ==
    Row(FillObject(<<>>, headers, split(rowStr, ","), 1))

\* rows.slice(1).map(rowStr => ...)
LineObjects(headers, rows) ==
    [i \in 1..(Len(rows) - 1) |-> LineObject(headers, rows[i + 1])]

\* jsonData of the text branch, rows being the non-blank lines
JsonData(rows) == LineObjects(TrimAll(split(rows[1], ",")), rows)

\* lines joined by "\n" into one text
RECURSIVE JoinLines(_)
JoinLines(lines) ==
    IF lines = <<>> THEN <<>>
    ELSE IF Len(lines) = 1 THEN lines[1]
    ELSE lines[1] \o <<"\n">> \o JoinLines(Tail(lines))

\* "SiO2, temp ,viscosity,remark"
LineHeader == <<"S","i","O","2",","," ","t","e","m","p"," ",",","v","i","s","c","o","s","i","t","y",",","r","e","m","a","r","k">>

\* "53.5,1488,2.268,lab"
LineFull == <<"5","3",".","5",",","1","4","8","8",",","2",".","2","6","8",",","l","a","b">>

\* "50,1450": no viscosity and no remark
LineRagged == <<"5","0",",","1","4","5","0">>

\* a line of white space
LineSpaces == <<" ","\f","\t">>

\* the lines a text file is made of
LinePool == {LineHeader, LineFull, LineRagged, LineSpaces, <<>>}

\* the texts of a header and MaxRows lines, and of one line more
LineSeqs == UNION {[1..n -> LinePool] : n \in 0..(MaxRows + 2)}
TextPool == {JoinLines(ls) : ls \in LineSeqs}

\* "foo\nbar": decoded to the one row {foo: "bar"}
TextFoo == <<"f","o","o","\n","b","a","r">>

\* a picked file: whether its name ends in .xlsx or .xls; for such a file
\* whether xlsx's read() throws on it, and the rows sheet_to_json yields
\* otherwise; for another file the text readAsText yields
File(rows) == [isExcel |-> TRUE, bad |-> FALSE, rows |-> rows, text |-> <<>>]
BadFile == [isExcel |-> TRUE, bad |-> TRUE, rows |-> <<>>, text |-> <<>>]
TextFile(t) == [isExcel |-> FALSE, bad |-> FALSE, rows |-> <<>>, text |-> t]

\* the files the user picks from
FilePool ==
    {File(<<RowA, RowB, RowOff>>),
     File(<<RowOff>>),
     TextFile(TextFoo),
     BadFile}

\* the files of failing imports, one that imports well among them: a text
\* of a header and no row, a text whose one row is rejected, and a sheet
\* that cannot be decoded
FailingPool ==
    {File(<<RowA, RowB, RowOff>>),
     TextFile(TextFoo),
     TextFile(LineHeader),
     BadFile}

(***************************************************************************)
(* constants.ts: MOCK_DATA.  (Remark: the ASCII part of the label.)        *)
(***************************************************************************)
MockHawaii(id, temp, visc) ==
    [sampleID |-> id, SiO2 |-> Millionths(53500000), Al2O3 |-> Millionths(15330000),
     FexOy |-> Millionths(10600000), Na2O |-> Millionths(2320000), K2O |-> Millionths(1870000),
     CaO |-> Millionths(7580000), MgO |-> Millionths(7480000), TiO2 |-> Millionths(940000),
     temperature |-> Millionths(temp),
     viscosityValue |-> Millionths(visc),
     Remark |-> <<"(","H","a","w","a","i","i",")">>, actualMeasuredData |-> 1]

MockIceland(id, temp, visc) ==
    [sampleID |-> id, SiO2 |-> Millionths(48200000), Al2O3 |-> Millionths(13100000),
     FexOy |-> Millionths(11200000), Na2O |-> Millionths(1950000), K2O |-> Millionths(450000),
     CaO |-> Millionths(10800000), MgO |-> Millionths(9500000), TiO2 |-> Millionths(1800000),
     temperature |-> Millionths(temp),
     viscosityValue |-> Millionths(visc),
     Remark |-> <<"(","I","c","e","l","a","n","d",")">>, actualMeasuredData |-> 1]

MOCK_DATA ==
    <<MockHawaii(1, 1488000000, 2268000),
      MockHawaii(2, 1470000000, 2232000),
      MockHawaii(3, 1460000000, 2241000),
      MockHawaii(4, 1450000000, 2280000),
      MockHawaii(5, 1440000000, 2322000),
      MockIceland(6, 1480000000, 1850000),
      MockIceland(7, 1450000000, 1920000),
      MockIceland(8, 1420000000, 2015000),
      MockIceland(9, 1390000000, 2150000),
      MockIceland(10, 1360000000, 2350000)>>

\* config.dbConfig as ProjectBuilder initialises it
DbConfig ==
    [host |-> "localhost", port |-> "3306", user |-> "root",
     password |-> "sql2008", database |-> "basalt_research",
     table |-> "melt_data"]

\* the members of ModelType, each named by its key, and the one that
\* ProjectBuilder starts with
ModelTypes == {"DISTILLATION", "PHYSICS_LIGHTGBM", "STACKING", "XGBOOST", "MLP"}
InitialModelType == "PHYSICS_LIGHTGBM"

(***************************************************************************)
(* State.                                                                  *)
(***************************************************************************)
VARIABLES
    \* App
    viscosityData,          \* useState<ChemicalData[]>([])
    viscosityRef,           \* the identity of the array held by viscosityData
    isConnected,            \* useState(false)
    connectedDbInfo,        \* <<>> for null, else <<host, db>>
    \* ProjectBuilder
    isLocal,                \* useState(false), set from the hostname on mount
    connecting,             \* useState(false); the 800 ms timer is pending
    dbConfig,               \* config.dbConfig
    modelType,              \* config.modelType
    timerConfig,            \* config.dbConfig as the pending timer's closure
                            \*   holds it
    reading,                \* the files whose FileReader has not fired onload
    alert,                  \* the alert raised by the last handler that may
                            \*   raise one, "" for none
    text,                   \* the text read by the last onload, "" when it
                            \*   read a spreadsheet
    rawData,                \* processImportedData, last call: its argument
    parsedData,             \*   its rawData.map(...)
    validData,              \*   its parsedData.filter(...)
    \* DataView, as of its last render
    data,                   \* the data prop
    dataRef,                \* the identity of the array held by data
    prevDataRef,            \* the same of the render before (the old [data] deps)
    groupedData,            \* the groupedData memo
    selectedGroupSignature, \* useState<string>('')
    currentData,            \* the currentData memo
    shown,                  \* the render went past the empty-state return
    \* DataView, scheduling
    pendingSel,             \* queued setSelectedGroupSignature: <<>> or <<value>>
    fx,                     \* the last render: pending (its effects have not
                            \*   run), data (its data prop is another array),
                            \*   keys (it changed the set of group keys)
    needRender,             \* a state update waits for a render
    \* App, the API key
    keyInput,               \* useState('')
    keyStatus,              \* useState('idle')
    apiKey,                 \* process.env.API_KEY, "" when unset
    validating,             \* the keys of the validateApiKey calls in flight
    \* ProjectBuilder, code generation
    loading,                \* useState(false)
    activeTab,              \* useState('config')
    generatedFiles,         \* useState<GeneratedFile[]>([])
    selectedFileIndex,      \* useState<number>(0)
    generating,             \* the number of generatePythonCode calls in flight
    \* ProjectBuilder, the chat
    chatHistory,            \* useState<ChatMessage[]>([])
    questionInput,          \* useState('')
    isChatThinking,         \* useState(false)
    asking                  \* the questions of the askExpert calls in flight

appVars == <<viscosityData, viscosityRef, isConnected, connectedDbInfo>>
configVars == <<dbConfig, timerConfig, modelType>>
builderVars == <<isLocal, connecting, configVars, reading, alert, text,
                 rawData, parsedData, validData>>
viewVars == <<data, dataRef, prevDataRef, groupedData,
              selectedGroupSignature, currentData, shown>>
schedVars == <<pendingSel, fx>>
keyVars == <<keyInput, keyStatus, apiKey, validating>>
genVars == <<loading, activeTab, generatedFiles, selectedFileIndex, generating>>
chatVars == <<chatHistory, questionInput, isChatThinking, asking>>
assistVars == <<keyVars, genVars, chatVars>>
vars == <<appVars, builderVars, viewVars, schedVars, needRender, assistVars>>

\* identities of arrays: the [] of useState, MOCK_DATA, and the arrays
\* that filter() creates
InitialRef == 0
MockRef == 1
FilterRefs == {2, 3}

\* the identity of a newly created array.  DataView compares the identity
\* of its data prop with that of its last render only, so two identities
\* for created arrays suffice: the new one is one the last render has not.
NewRef == CHOOSE r \in FilterRefs :
              r # dataRef /\ \A q \in FilterRefs : q # dataRef => r <= q

\* Object.keys(groupedData)
groupKeys == ObjectKeys(groupedData)

InitCommon ==
    /\ viscosityData = <<>>
    /\ viscosityRef = InitialRef
    /\ isConnected = FALSE
    /\ connectedDbInfo = <<>>
    /\ connecting = FALSE
    /\ dbConfig = DbConfig
    /\ timerConfig = DbConfig
    /\ modelType = InitialModelType
    /\ alert = ""
    /\ text = <<>>
    /\ rawData = <<>>
    /\ parsedData = <<>>
    /\ validData = <<>>
    /\ data = <<>>
    /\ dataRef = InitialRef
    /\ prevDataRef = InitialRef
    /\ groupedData = <<>>
    /\ selectedGroupSignature = <<>>
    /\ currentData = <<>>
    /\ shown = FALSE
    /\ pendingSel = <<>>
    /\ fx = [pending |-> FALSE, data |-> FALSE, keys |-> FALSE]
    /\ needRender = FALSE
    /\ loading = FALSE
    /\ activeTab = "config"
    /\ generatedFiles = <<>>
    /\ selectedFileIndex = 0
    /\ generating = 0
    /\ chatHistory = <<>>
    /\ questionInput = <<>>
    /\ isChatThinking = FALSE
    /\ asking = <<>>

\* no key has been typed
InitKey ==
    /\ keyInput = <<>>
    /\ keyStatus = "idle"
    /\ apiKey = <<>>
    /\ validating = <<>>

\* the application after mount, on a local or a remote host
Init ==
    /\ InitCommon
    /\ InitKey
    /\ isLocal \in BOOLEAN
    /\ reading = {}

(***************************************************************************)
(* App: the callbacks handed to ProjectBuilder.                            *)
(***************************************************************************)
\* a variant of handleDataLoaded: the samples change, the identity of the
\* array does not
handleDataLoadedInPlace(d, ref) ==
    /\ viscosityData' = d
    /\ viscosityRef' = viscosityRef
    /\ isConnected' = TRUE

\* handleDataLoaded(d), d being the array of identity ref
handleDataLoaded(d, ref) ==
    /\ viscosityData' = d
    /\ viscosityRef' = ref
    /\ isConnected' = TRUE

\* handleDbConnect(host, db)
handleDbConnect(host, db) ==
    /\ connectedDbInfo' = <<host, db>>
    /\ isConnected' = TRUE

(***************************************************************************)
(* ProjectBuilder: import and mock load.                                   *)
(***************************************************************************)
\* the db argument of onConnect after an import
FoundRows(n) == "Found " \o ToString(n) \o " rows"

\* the content of a chat message made from a response without text:
\* askExpert returns response.text, which is undefined then
NoText == <<"undefined">>

\* the render of ProjectBuilder throws: the code view reads
\* generatedFiles[selectedFileIndex].name of a file that does not exist,
\* or the chat reads msg.content.replace of a model message without
\* content.  No error boundary catches it, so the application is
\* unmounted: no event is delivered, nothing is rendered and no state of
\* a component is set from then on.  A callback that is pending then, the
\* onload of a file being read or the continuation of a call to a
\* service, still runs: it raises its alert and stores the key.
RenderThrows ==
    \/ /\ activeTab = "code"
       /\ Len(generatedFiles) > 0
       /\ selectedFileIndex >= Len(generatedFiles)
    \/ /\ activeTab = "advice"
       /\ \E i \in 1..Len(chatHistory) :
              /\ chatHistory[i].role = "model"
              /\ chatHistory[i].content = NoText

\* a variant of DeliverValid: the connection label is set in either case
DeliverValidLabelled(valid) ==
    IF RenderThrows
    THEN /\ alert' = IF Len(valid) > 0 THEN "" ELSE "no valid data"
         /\ UNCHANGED <<appVars, needRender>>
    ELSE /\ handleDbConnect("Imported File", FoundRows(Len(valid)))
         /\ IF Len(valid) > 0
            THEN /\ viscosityData' = valid
                 /\ viscosityRef' = NewRef
                 /\ alert' = ""
                 /\ needRender' = TRUE
            ELSE /\ alert' = "no valid data"
                 /\ UNCHANGED <<viscosityData, viscosityRef, needRender>>

\* the tail of processImportedData: the accepted rows are handed over,
\* or the user is told that there are none.  Once the application is
\* unmounted, onDataLoaded and onConnect set no state.
DeliverValid(valid) ==
    IF Len(valid) > 0
    THEN /\ alert' = ""
         /\ IF RenderThrows
            THEN UNCHANGED <<appVars, needRender>>
            ELSE /\ handleDataLoaded(valid, NewRef)
                 /\ handleDbConnect("Imported File", FoundRows(Len(valid)))
                 /\ needRender' = TRUE
    ELSE /\ alert' = "no valid data"
         /\ UNCHANGED <<appVars, needRender>>

\* processImportedData(raw): nothing in its try block throws
processImportedData(raw) ==
    /\ rawData' = raw
    /\ parsedData' = ParsedData(raw)
    /\ validData' = ValidData(parsedData')
    /\ DeliverValid(validData')

\* handleFileUpload, spreadsheet branch: the file is handed to a FileReader.
\* The file input is rendered inside the configuration tab.
ChooseFile(f) ==
    /\ ~RenderThrows
    /\ activeTab = "config"
    /\ Cardinality(reading) < MaxReads
    /\ f \notin reading
    /\ reading' = reading \cup {f}
    /\ UNCHANGED <<appVars, isLocal, connecting, configVars, alert, text,
                   rawData, parsedData, validData, viewVars, schedVars,
                   needRender>>
    /\ UNCHANGED assistVars

\* reader.onload of the spreadsheet branch; a read that has begun
\* completes in the unmounted application too
OnLoad(f) ==
    /\ f \in reading
    /\ f.isExcel
    /\ reading' = reading \ {f}
    /\ IF f.bad
       THEN /\ alert' = "excel parse failed"
            /\ UNCHANGED <<appVars, rawData, parsedData, validData, needRender>>
       ELSE processImportedData(f.rows)
    /\ text' = <<>>
    /\ UNCHANGED <<isLocal, connecting, configVars, viewVars, schedVars>>
    /\ UNCHANGED assistVars

\* the text branch of reader.onload past "if (!text) return", rows being
\* the non-blank lines: nothing in its try block throws
DecodeRows(rows) ==
    IF Len(rows) < 2
    THEN /\ alert' = ""
         /\ UNCHANGED <<appVars, rawData, parsedData, validData, needRender>>
    ELSE processImportedData(JsonData(rows))

\* reader.onload of the text branch
OnLoadText(f) ==
    /\ f \in reading
    /\ ~f.isExcel
    /\ reading' = reading \ {f}
    /\ text' = f.text
    /\ IF f.text = <<>>
       THEN /\ alert' = ""
            /\ UNCHANGED <<appVars, rawData, parsedData, validData, needRender>>
       ELSE DecodeRows(NonBlankRows(split(f.text, "\n")))
    /\ UNCHANGED <<isLocal, connecting, configVars, viewVars, schedVars>>
    /\ UNCHANGED assistVars

\* handleTestConnection: the click on the mock button, which is rendered
\* inside the configuration tab and disabled while !isLocal || connecting
TestConnection ==
    /\ ~RenderThrows
    /\ activeTab = "config"
    /\ isLocal
    /\ ~connecting
    /\ connecting' = TRUE
    /\ timerConfig' = dbConfig
    /\ UNCHANGED <<appVars, isLocal, dbConfig, modelType, reading, alert, text,
                   rawData, parsedData, validData, viewVars, schedVars,
                   needRender>>
    /\ UNCHANGED assistVars

\* a variant of MockTimeout: the samples are handed over, the label is not
MockTimeoutUnlabelled ==
    /\ ~RenderThrows
    /\ connecting
    /\ handleDataLoaded(MOCK_DATA, MockRef)
    /\ connecting' = FALSE
    /\ needRender' = TRUE
    /\ UNCHANGED <<connectedDbInfo, isLocal, configVars, reading, alert, text,
                   rawData, parsedData, validData, viewVars, schedVars>>
    /\ UNCHANGED assistVars

\* a variant of MockTimeout: a copy of MOCK_DATA is handed over
MockTimeoutCopying ==
    /\ ~RenderThrows
    /\ connecting
    /\ handleDataLoaded(MOCK_DATA, NewRef)
    /\ handleDbConnect(timerConfig.host, timerConfig.database)
    /\ connecting' = FALSE
    /\ needRender' = TRUE
    /\ UNCHANGED <<isLocal, configVars, reading, alert, text, rawData,
                   parsedData, validData, viewVars, schedVars>>
    /\ UNCHANGED assistVars

\* the setTimeout callback of handleTestConnection
MockTimeout ==
    /\ ~RenderThrows
    /\ connecting
    /\ handleDataLoaded(MOCK_DATA, MockRef)
    /\ handleDbConnect(timerConfig.host, timerConfig.database)
    /\ connecting' = FALSE
    /\ needRender' = TRUE
    /\ UNCHANGED <<isLocal, configVars, reading, alert, text, rawData,
                   parsedData, validData, viewVars, schedVars>>
    /\ UNCHANGED assistVars

\* the fields of dbConfig that have an input, and the texts typed into
\* one
ConfigKeys == {"host", "database", "password", "table"}
ConfigTexts == {"localhost", "db.example"}

\* updateDbConfig(key, value), onChange of an input of the configuration
\* tab
updateDbConfig(key, value) ==
    /\ ~RenderThrows
    /\ activeTab = "config"
    /\ dbConfig' = [dbConfig EXCEPT ![key] = value]
    /\ UNCHANGED <<appVars, isLocal, connecting, timerConfig, modelType,
                   reading, alert, text, rawData, parsedData, validData,
                   viewVars, schedVars, needRender>>
    /\ UNCHANGED assistVars

\* onChange of the radio button of a training strategy, rendered inside
\* the configuration tab
SetModelType(label) ==
    /\ ~RenderThrows
    /\ activeTab = "config"
    /\ label # modelType
    /\ modelType' = label
    /\ UNCHANGED <<appVars, isLocal, connecting, dbConfig, timerConfig,
                   reading, alert, text, rawData, parsedData, validData,
                   viewVars, schedVars, needRender>>
    /\ UNCHANGED assistVars

(***************************************************************************)
(* DataView: render, effects, selection.                                   *)
(***************************************************************************)
\* a variant of SelectionValidityEffect: the first key is set whether or
\* not the selection is a key
SelectionValidityEffectAlways(q) ==
    IF Len(groupKeys) > 0 THEN <<groupKeys[1]>> ELSE << <<>> >>

\* a variant of ResetEffect: no reset
ResetEffectNone(q) == q

\* the effect on [groupKeys, selectedGroupSignature]; groupKeys is a new
\* array in every render, so the effect runs after every render.  q is
\* the queued selection update, the result is the queue after the effect.
SelectionValidityEffect(q) ==
    IF Len(groupKeys) > 0
    THEN IF selectedGroupSignature = <<>>
            \/ ~HasKey(groupedData, selectedGroupSignature)
         THEN <<groupKeys[1]>>
         ELSE q
    ELSE << <<>> >>

\* the effect on [data]: runs after a render whose data prop is another
\* array than that of the render before
ResetEffect(q) ==
    IF Len(groupKeys) > 0 THEN <<groupKeys[1]>> ELSE q

\* the set of the keys of a grouping
KeySet(groups) == {groups[i].k : i \in 1..Len(groups)}

\* a variant of Render: the rows are added to the groups of the last
\* render
RenderOntoLast ==
    /\ ~RenderThrows
    /\ needRender
    /\ ~fx.pending
    /\ data' = viscosityData
    /\ dataRef' = viscosityRef
    /\ prevDataRef' = dataRef
    /\ groupedData' = IF viscosityRef = dataRef THEN groupedData
                      ELSE GroupRows(groupedData, viscosityData)
    /\ selectedGroupSignature' =
           IF pendingSel # <<>> THEN pendingSel[1] ELSE selectedGroupSignature
    /\ currentData' = CurrentData(groupedData', selectedGroupSignature')
    /\ shown' = (isConnected /\ Len(viscosityData) # 0)
    /\ pendingSel' = <<>>
    /\ fx' = [pending |-> TRUE, data |-> viscosityRef # dataRef,
              keys |-> KeySet(groupedData') # KeySet(groupedData)]
    /\ needRender' = FALSE
    /\ UNCHANGED <<appVars, builderVars>>
    /\ UNCHANGED assistVars

\* the groups with the group of key sel sorted by temperature
SortedInPlace(groups, sel) ==
    [g \in 1..Len(groups) |->
        IF groups[g].k = sel
        THEN E(sel, SortByTemperature(groups[g].v))
        ELSE groups[g]]

\* a variant of Render: the selected group is sorted in place, without
\* the copy
RenderSortingInPlace ==
    /\ ~RenderThrows
    /\ needRender
    /\ ~fx.pending
    /\ data' = viscosityData
    /\ dataRef' = viscosityRef
    /\ prevDataRef' = dataRef
    /\ selectedGroupSignature' =
           IF pendingSel # <<>> THEN pendingSel[1] ELSE selectedGroupSignature
    /\ groupedData' =
           SortedInPlace(IF viscosityRef = dataRef THEN groupedData
                         ELSE GroupedData(viscosityData),
                         selectedGroupSignature')
    /\ currentData' = CurrentData(groupedData', selectedGroupSignature')
    /\ shown' = (isConnected /\ Len(viscosityData) # 0)
    /\ pendingSel' = <<>>
    /\ fx' = [pending |-> TRUE, data |-> viscosityRef # dataRef,
              keys |-> KeySet(groupedData') # KeySet(groupedData)]
    /\ needRender' = FALSE
    /\ UNCHANGED <<appVars, builderVars>>
    /\ UNCHANGED assistVars

\* a render of DataView with the current props and state
Render ==
    /\ ~RenderThrows
    /\ needRender
    /\ ~fx.pending
    /\ data' = viscosityData
    /\ dataRef' = viscosityRef
    /\ prevDataRef' = dataRef
    /\ groupedData' = IF viscosityRef = dataRef THEN groupedData
                      ELSE GroupedData(viscosityData)
    /\ selectedGroupSignature' =
           IF pendingSel # <<>> THEN pendingSel[1] ELSE selectedGroupSignature
    /\ currentData' = CurrentData(groupedData', selectedGroupSignature')
    /\ shown' = (isConnected /\ Len(viscosityData) # 0)
    /\ pendingSel' = <<>>
    /\ fx' = [pending |-> TRUE, data |-> viscosityRef # dataRef,
              keys |-> KeySet(groupedData') # KeySet(groupedData)]
    /\ needRender' = FALSE
    /\ UNCHANGED <<appVars, builderVars>>
    /\ UNCHANGED assistVars

\* an update to the value the state already has is dropped
DropSame(q) == IF q = <<selectedGroupSignature>> THEN <<>> ELSE q

\* a variant of RunEffects: the effects queue no selection
RunEffectsIdle ==
    /\ ~RenderThrows
    /\ fx.pending
    /\ pendingSel' = pendingSel
    /\ needRender' = (needRender \/ pendingSel' # <<>>)
    /\ fx' = [fx EXCEPT !.pending = FALSE]
    /\ UNCHANGED <<appVars, builderVars, viewVars>>
    /\ UNCHANGED assistVars

\* the effects of the last render run, in the order of their declaration
RunEffects ==
    /\ ~RenderThrows
    /\ fx.pending
    /\ pendingSel' =
           DropSame(IF fx.data
                    THEN ResetEffect(SelectionValidityEffect(pendingSel))
                    ELSE SelectionValidityEffect(pendingSel))
    /\ needRender' = (needRender \/ pendingSel' # <<>>)
    /\ fx' = [fx EXCEPT !.pending = FALSE]
    /\ UNCHANGED <<appVars, builderVars, viewVars>>
    /\ UNCHANGED assistVars

\* onChange of the <select>: the user picks another option
Select(sig) ==
    /\ ~RenderThrows
    /\ shown
    /\ ~fx.pending
    /\ HasKey(groupedData, sig)
    /\ sig # selectedGroupSignature
    /\ pendingSel' = <<sig>>
    /\ needRender' = TRUE
    /\ UNCHANGED <<appVars, builderVars, viewVars, fx>>
    /\ UNCHANGED assistVars

(***************************************************************************)
(* App: the API key.                                                       *)
(***************************************************************************)
\* the texts typed into the key input: nothing, a blank, two keys that the
\* service accepts, a key that it rejects
KeyTexts == {<<>>, <<" ">>, <<"g">>, <<"h">>, <<"b">>}
AcceptedKeys == {<<"g">>, <<"h">>}

\* seq without its i-th element
RemoveAt(seq, i) == SubSeq(seq, 1, i - 1) \o SubSeq(seq, i + 1, Len(seq))

\* handleKeyChange: the input holds the text v.  keyInput and keyStatus
\* are state of App: App renders again, and DataView with it.
handleKeyChange(v) ==
    /\ ~RenderThrows
    /\ v # keyInput
    /\ keyInput' = v
    /\ keyStatus' = "idle"
    /\ needRender' = TRUE
    /\ UNCHANGED <<apiKey, validating>>
    /\ UNCHANGED <<appVars, builderVars, viewVars, schedVars, genVars,
                   chatVars>>

\* handleVerifyKey up to its await: the click on the verify button, which
\* is disabled while keyStatus === 'checking' || !keyInput
handleVerifyKey ==
    /\ ~RenderThrows
    /\ keyStatus # "checking"
    /\ keyInput # <<>>
    /\ Len(validating) < MaxCalls
    /\ IF trim(keyInput) = <<>>
       THEN UNCHANGED <<keyStatus, validating, needRender>>
       ELSE /\ keyStatus' = "checking"
            /\ validating' = Append(validating, keyInput)
            /\ needRender' = TRUE
    /\ UNCHANGED <<keyInput, apiKey>>
    /\ UNCHANGED <<appVars, builderVars, viewVars, schedVars, genVars,
                   chatVars>>

\* handleVerifyKey after its await: the i-th call in flight resolves to
\* isValid; validateApiKey resolves to true only if the service accepts the
\* key, and to false on any error.  A status that differs from the last
\* one renders App again; in the unmounted application the status is not
\* set, and the key is stored all the same.
KeyValidated(i, isValid) ==
    /\ i \in 1..Len(validating)
    /\ isValid => validating[i] \in AcceptedKeys
    /\ validating' = RemoveAt(validating, i)
    /\ apiKey' = IF isValid THEN validating[i] ELSE <<>>
    /\ keyStatus' = IF RenderThrows THEN keyStatus
                    ELSE IF isValid THEN "valid" ELSE "invalid"
    /\ needRender' = (needRender \/ keyStatus' # keyStatus)
    /\ UNCHANGED keyInput
    /\ UNCHANGED <<appVars, builderVars, viewVars, schedVars, genVars,
                   chatVars>>

(***************************************************************************)
(* ProjectBuilder: code generation.                                        *)
(***************************************************************************)
\* the parts of the delimiter /--- FILE: (.*?) ---/
DelimiterOpen == <<"-","-","-"," ","F","I","L","E",":"," ">>
DelimiterClose == <<" ","-","-","-">>

\* pat occurs in s at position i
OccursAt(s, pat, i) ==
    /\ i + Len(pat) - 1 <= Len(s)
    /\ SubSeq(s, i, i + Len(pat) - 1) = pat

\* the position of the first DelimiterClose in s from j on that is on the
\* line of j, 0 when there is none: (.*?) takes the fewest characters, and
\* none that ends a line
RECURSIVE CloseFrom(_, _)
CloseFrom(s, j) ==
    IF j > Len(s) THEN 0
    ELSE IF OccursAt(s, DelimiterClose, j) THEN j
    ELSE IF s[j] \in {"\n", "\r"} THEN 0
    ELSE CloseFrom(s, j + 1)

\* text.split(/--- FILE: (.*?) ---/g): i is the position examined, from
\* the start of the piece, close the position of the closing part of a
\* delimiter that opens at i, or 0
RECURSIVE SplitAt(_, _, _, _)
SplitAt(s, i, from, close) ==
    IF i > Len(s) THEN <<SubSeq(s, from, Len(s))>>
    ELSE IF OccursAt(s, DelimiterOpen, i) /\ close # 0
    THEN <<SubSeq(s, from, i - 1),
           SubSeq(s, i + Len(DelimiterOpen), close - 1)>>
         \o SplitAt(s, close + Len(DelimiterClose),
                    close + Len(DelimiterClose),
                    CloseFrom(s, close + Len(DelimiterClose)
                                     + Len(DelimiterOpen)))
    ELSE SplitAt(s, i + 1, from, CloseFrom(s, i + 1 + Len(DelimiterOpen)))

SplitOnDelimiter(s) == SplitAt(s, 1, 1, CloseFrom(s, 1 + Len(DelimiterOpen)))

\* the loop of parseGeneratedOutput over the parts
FilesOfParts(parts) ==
    [k \in 1..((Len(parts) - 1) \div 2) |->
        [name |-> trim(parts[2 * k]), content |-> trim(parts[2 * k + 1])]]

\* the files of parseGeneratedOutput(text)
DefaultFile(t) == [name |-> <<"g","e","n","e","r","a","t","e","d","_","s","c","r","i","p","t",".","p","y">>, content |-> t]
FilesOrDefault(files, t) == IF Len(files) = 0 THEN <<DefaultFile(t)>> ELSE files
GeneratedFilesOf(t) == FilesOrDefault(FilesOfParts(SplitOnDelimiter(t)), t)

\* the file that handleGenerate's catch block shows
ErrorLog ==
  [name |-> <<"e","r","r","o","r",".","l","o","g">>,
   content |->
    <<"E","r","r","o","r"," ","g","e","n","e","r","a","t","i","n","g"," ","c","o","d","e","."," ","P","l","e","a","s","e"," ","c","h","e","c","k">>
    \o <<" ","A","P","I"," ","K","e","y"," ","o","r"," ","N","e","t","w","o","r","k",".">>]

\* what generatePythonCode resolves to: texts of four and of three files,
\* a text of two files of which the second is empty, a text that opens
\* with a preamble and holds one file, a text without a delimiter, the
\* text of a caught error
TwoFiles == <<"-","-","-"," ","F","I","L","E",":"," ","a"," ","-","-","-","\n","x","\n","-","-","-"," ","F","I","L","E",":"," ","b",".","p","y"," ","-","-","-">>
PreambleAndFile == <<"o","k","\n","-","-","-"," ","F","I","L","E",":"," "," ","m"," "," ","-","-","-","\n"," ","y"," ","\n">>
FourFiles == <<"-","-","-"," ","F","I","L","E",":"," ","a"," ","-","-","-","\n","x","\n","-","-","-"," ","F","I","L","E",":"," ","b"," ","-","-","-","\n","y","\n","-","-","-"," ","F","I","L","E",":"," ","c"," ","-","-","-","\n","z","\n","-","-","-"," ","F","I","L","E",":"," ","d"," ","-","-","-","\n","w">>
ThreeFiles == <<"-","-","-"," ","F","I","L","E",":"," ","a"," ","-","-","-","\n","x","\n","-","-","-"," ","F","I","L","E",":"," ","b"," ","-","-","-","\n","y","\n","-","-","-"," ","F","I","L","E",":"," ","c"," ","-","-","-","\n","z">>
PlainText == <<"x"," ","="," ","1">>
ErrorText == <<"E","r","r","o","r",":"," ","e">>
ServiceTexts == {FourFiles, ThreeFiles, TwoFiles, PreambleAndFile, PlainText, ErrorText}

\* the click on a tab
SetActiveTab(tab) ==
    /\ ~RenderThrows
    /\ tab # activeTab
    /\ activeTab' = tab
    /\ UNCHANGED <<loading, generatedFiles, selectedFileIndex, generating>>
    /\ UNCHANGED <<appVars, builderVars, viewVars, schedVars, needRender,
                   keyVars, chatVars>>

\* handleGenerate up to its await: the click on the button of the
\* configuration tab
handleGenerate ==
    /\ ~RenderThrows
    /\ activeTab = "config"
    /\ generating < MaxCalls
    /\ IF apiKey = <<>>
       THEN /\ alert' = "api key missing"
            /\ UNCHANGED genVars
       ELSE /\ loading' = TRUE
            /\ activeTab' = "code"
            /\ generatedFiles' = <<>>
            /\ generating' = generating + 1
            /\ UNCHANGED <<selectedFileIndex, alert>>
    /\ UNCHANGED <<appVars, isLocal, connecting, configVars, reading, text,
                   rawData, parsedData, validData, viewVars, schedVars,
                   needRender, keyVars, chatVars>>

\* handleGenerate after its await, generatePythonCode having resolved to
\* t; in the unmounted application the call ends and sets no state
GenerateResolves(t) ==
    /\ generating > 0
    /\ generating' = generating - 1
    /\ IF RenderThrows
       THEN UNCHANGED <<generatedFiles, selectedFileIndex, loading>>
       ELSE /\ generatedFiles' = GeneratedFilesOf(t)
            /\ selectedFileIndex' = 0
            /\ loading' = FALSE
    /\ UNCHANGED activeTab
    /\ UNCHANGED <<appVars, builderVars, viewVars, schedVars, needRender,
                   keyVars, chatVars>>

\* handleGenerate after its await, generatePythonCode having resolved to
\* undefined (a response without text) or having thrown: the catch block
GenerateFails ==
    /\ generating > 0
    /\ generating' = generating - 1
    /\ IF RenderThrows
       THEN UNCHANGED <<generatedFiles, loading>>
       ELSE /\ generatedFiles' = <<ErrorLog>>
            /\ loading' = FALSE
    /\ UNCHANGED <<activeTab, selectedFileIndex>>
    /\ UNCHANGED <<appVars, builderVars, viewVars, schedVars, needRender,
                   keyVars, chatVars>>

\* the click on the idx-th file of the code view, which the overlay covers
\* while loading
SelectFile(idx) ==
    /\ ~RenderThrows
    /\ activeTab = "code"
    /\ ~loading
    /\ idx \in 0..(Len(generatedFiles) - 1)
    /\ idx # selectedFileIndex
    /\ selectedFileIndex' = idx
    /\ UNCHANGED <<loading, activeTab, generatedFiles, generating>>
    /\ UNCHANGED <<appVars, builderVars, viewVars, schedVars, needRender,
                   keyVars, chatVars>>

(***************************************************************************)
(* ProjectBuilder: the chat with the expert.                               *)
(***************************************************************************)
\* QUICK_QUESTIONS, each text named by its position, and the texts typed
\* into the question input
QuickQuestions == {<<"q","1">>, <<"q","2">>, <<"q","3">>, <<"q","4">>}
QuestionTexts == {<<>>, <<" ">>, <<"w","h","y">>}

\* what askExpert resolves to: an answer, the text of its catch block,
\* or undefined for a response without text
ExpertError == <<"I"," ","e","n","c","o","u","n","t","e","r","e","d">>
AnswerTexts == {<<"o","k">>, ExpertError, NoText}

\* the content of the message that handleSendMessage's catch block adds
SorryMessage == <<"s","o","r","r","y">>

ChatMessage(role, content) == [role |-> role, content |-> content]

\* onChange of the question input, which is disabled while isChatThinking
setQuestionInput(v) ==
    /\ ~RenderThrows
    /\ activeTab = "advice"
    /\ ~isChatThinking
    /\ v # questionInput
    /\ questionInput' = v
    /\ UNCHANGED <<chatHistory, isChatThinking, asking>>
    /\ UNCHANGED <<appVars, builderVars, viewVars, schedVars, needRender,
                   keyVars, genVars>>

\* handleSendMessage past its test of the key, up to its await: a blank
\* msg returns
SendMessage(msg) ==
    IF trim(msg) = <<>>
    THEN UNCHANGED chatVars
    ELSE /\ Len(chatHistory) + 2 * Len(asking) + 2 <= MaxMessages
         /\ chatHistory' = Append(chatHistory, ChatMessage("user", msg))
         /\ questionInput' = <<>>
         /\ isChatThinking' = TRUE
         /\ asking' = Append(asking, msg)

\* handleSendMessage(msgOverride) up to its await, <<>> standing for no
\* msgOverride: the click on a quick question, shown while the chat is
\* empty, or the Enter key in the question input, which is disabled while
\* isChatThinking (the send button does the same, and is disabled for a
\* blank question too)
handleSendMessage(msgOverride) ==
    /\ ~RenderThrows
    /\ activeTab = "advice"
    /\ IF msgOverride = <<>> THEN ~isChatThinking ELSE chatHistory = <<>>
    /\ IF apiKey = <<>>
       THEN /\ alert' = "api key missing"
            /\ UNCHANGED chatVars
       ELSE /\ SendMessage(OrStr(msgOverride, questionInput))
            /\ UNCHANGED alert
    /\ UNCHANGED <<appVars, isLocal, connecting, configVars, reading, text,
                   rawData, parsedData, validData, viewVars, schedVars,
                   needRender, keyVars, genVars>>

\* handleSendMessage after its await, the i-th askExpert call in flight
\* having resolved to t; in the unmounted application the call ends and
\* sets no state
AskResolves(i, t) ==
    /\ i \in 1..Len(asking)
    /\ asking' = RemoveAt(asking, i)
    /\ IF RenderThrows
       THEN UNCHANGED <<chatHistory, isChatThinking>>
       ELSE /\ chatHistory' = Append(chatHistory, ChatMessage("model", t))
            /\ isChatThinking' = FALSE
    /\ UNCHANGED questionInput
    /\ UNCHANGED <<appVars, builderVars, viewVars, schedVars, needRender,
                   keyVars, genVars>>

\* handleSendMessage after its await, the i-th askExpert call in flight
\* having thrown: the catch block
AskFails(i) ==
    /\ i \in 1..Len(asking)
    /\ asking' = RemoveAt(asking, i)
    /\ IF RenderThrows
       THEN UNCHANGED <<chatHistory, isChatThinking>>
       ELSE /\ chatHistory' = Append(chatHistory, ChatMessage("model", SorryMessage))
            /\ isChatThinking' = FALSE
    /\ UNCHANGED questionInput
    /\ UNCHANGED <<appVars, builderVars, viewVars, schedVars, needRender,
                   keyVars, genVars>>

(***************************************************************************)
(* DataView: what the last render derives for display.                     *)
(***************************************************************************)
\* the label of an option: "sampleID - Remark", or "Sample sampleID" for an
\* empty Remark
OptionLabel(firstRow) ==
    IF firstRow.Remark # <<>>
    THEN NatToChars(firstRow.sampleID) \o <<" ", "-", " ">> \o firstRow.Remark
    ELSE <<"S","a","m","p","l","e"," ">> \o NatToChars(firstRow.sampleID)

\* sampleOptions: one option per key, labelled from groupedData[sig][0]
sampleOptions ==
    [i \in 1..Len(groupKeys) |->
        [value |-> groupKeys[i],
         label |-> OptionLabel(Get(groupedData, groupKeys[i])[1])]]

\* a variant of currentSample: the first sample of the selected group as
\* the grouping holds it
currentSampleOfGroup ==
    IF selectedGroupSignature # <<>>
           /\ HasKey(groupedData, selectedGroupSignature)
    THEN <<Get(groupedData, selectedGroupSignature)[1]>>
    ELSE <<>>

\* currentSample = currentData[0]: <<>> for undefined, else <<sample>>
currentSample ==
    IF Len(currentData) > 0 THEN <<currentData[1]>> ELSE <<>>

\* currentSample?.f, the value the composition panel shows for field f:
\* <<>> for undefined, else <<value>>
OptionalField(f) ==
    IF currentSample = <<>> THEN <<>> ELSE <<currentSample[1][f]>>

(***************************************************************************)
(* Specifications.                                                         *)
(***************************************************************************)
\* the mounted application: every handler, callback and render
Next ==
    \/ \E f \in FilePool \cup FailingPool : ChooseFile(f)
    \/ \E f \in reading : OnLoad(f)
    \/ \E f \in reading : OnLoadText(f)
    \/ TestConnection
    \/ MockTimeout
    \/ \E key \in ConfigKeys : \E value \in ConfigTexts :
           updateDbConfig(key, value)
    \/ \E label \in ModelTypes : SetModelType(label)
    \/ Render
    \/ RunEffects
    \/ \E i \in 1..Len(groupKeys) : Select(groupKeys[i])
    \/ \E v \in KeyTexts : handleKeyChange(v)
    \/ handleVerifyKey
    \/ \E i \in 1..Len(validating) : \E isValid \in BOOLEAN :
           KeyValidated(i, isValid)
    \/ \E tab \in {"config", "code", "advice"} : SetActiveTab(tab)
    \/ handleGenerate
    \/ \E t \in ServiceTexts : GenerateResolves(t)
    \/ GenerateFails
    \/ \E idx \in 0..(Len(generatedFiles) - 1) : SelectFile(idx)
    \/ \E v \in QuestionTexts : setQuestionInput(v)
    \/ \E q \in QuickQuestions \cup {<<>>} : handleSendMessage(q)
    \/ \E i \in 1..Len(asking) : \E t \in AnswerTexts : AskResolves(i, t)
    \/ \E i \in 1..Len(asking) : AskFails(i)

Spec == Init /\ [][Next]_vars

\* the flow of the samples alone: imports, mock loads, renders, effects
\* and selections.  The steps of Next left out change the configuration,
\* the alert, the key, the generated files and the chat, none of which a
\* step of NextData reads but for the configuration, which here stays as
\* ProjectBuilder initialises it.  An edit of the key renders DataView
\* again with the samples it has, as a repeated mock load does here.
NextData ==
    \/ \E f \in FilePool : ChooseFile(f)
    \/ \E f \in reading : OnLoad(f)
    \/ \E f \in reading : OnLoadText(f)
    \/ TestConnection
    \/ MockTimeout
    \/ Render
    \/ RunEffects
    \/ \E i \in 1..Len(groupKeys) : Select(groupKeys[i])

SpecData == Init /\ [][NextData]_vars

\* the same flow with the files of FailingPool
NextFailing ==
    \/ \E f \in FailingPool : ChooseFile(f)
    \/ \E f \in reading : OnLoad(f)
    \/ \E f \in reading : OnLoadText(f)
    \/ TestConnection
    \/ MockTimeout
    \/ Render
    \/ RunEffects
    \/ \E i \in 1..Len(groupKeys) : Select(groupKeys[i])

SpecFailing == Init /\ [][NextFailing]_vars

\* one import of any bounded row sequence into the freshly mounted
\* application, followed by the renders, effects and selections
InitImport ==
    /\ InitCommon
    /\ InitKey
    /\ isLocal = FALSE
    /\ \E rows \in RowSeqs : reading = {File(rows)}

NextImport ==
    \/ \E f \in reading : OnLoad(f)
    \/ Render
    \/ RunEffects
    \/ \E i \in 1..Len(groupKeys) : Select(groupKeys[i])

SpecImport == InitImport /\ [][NextImport]_vars

\* one import of any bounded sequence of the rows of ResolvePool
InitResolve ==
    /\ InitCommon
    /\ InitKey
    /\ isLocal = FALSE
    /\ \E rows \in ResolveSeqs : reading = {File(rows)}

\* the import alone: the resolver applied to the rows
NextResolve == \E f \in reading : OnLoad(f)

SpecResolve == InitResolve /\ [][NextResolve]_vars

\* the API key alone: edits, verify clicks and the outcomes of the
\* validations in any order, with the renders and effects that follow
NextKey ==
    \/ \E v \in KeyTexts : handleKeyChange(v)
    \/ handleVerifyKey
    \/ \E i \in 1..Len(validating) : \E isValid \in BOOLEAN :
           KeyValidated(i, isValid)
    \/ Render
    \/ RunEffects

SpecKey == Init /\ [][NextKey]_vars

\* the application with no key, or with an accepted key verified
InitGenerate ==
    /\ InitCommon
    /\ isLocal = FALSE
    /\ reading = {}
    /\ \/ InitKey
       \/ /\ keyInput = <<"g">>
          /\ keyStatus = "valid"
          /\ apiKey = <<"g">>
          /\ validating = <<>>

\* code generation alone: tabs, generate clicks, the outcomes of the
\* service and file selections in any order
NextGenerate ==
    \/ \E tab \in {"config", "code", "advice"} : SetActiveTab(tab)
    \/ handleGenerate
    \/ \E t \in ServiceTexts : GenerateResolves(t)
    \/ GenerateFails
    \/ \E idx \in 0..(Len(generatedFiles) - 1) : SelectFile(idx)

SpecGenerate == InitGenerate /\ [][NextGenerate]_vars

\* the loads alone: imports, mock loads and edits of the configuration in
\* any order, without the view
NextLoads ==
    \/ \E f \in FilePool \cup FailingPool : ChooseFile(f)
    \/ \E f \in reading : OnLoad(f)
    \/ \E f \in reading : OnLoadText(f)
    \/ TestConnection
    \/ MockTimeout
    \/ \E key \in {"host", "database"} : \E value \in ConfigTexts :
           updateDbConfig(key, value)

SpecLoads == Init /\ [][NextLoads]_vars

\* one import of any text of TextPool
InitText ==
    /\ InitCommon
    /\ InitKey
    /\ isLocal = FALSE
    /\ \E t \in TextPool : reading = {TextFile(t)}

\* the import alone: the decoding and the normalisation of the text
NextText == \E f \in reading : OnLoadText(f)

SpecText == InitText /\ [][NextText]_vars

(***************************************************************************)
(* Import: acceptance and sample ids (ProjectBuilder.processImportedData). *)
(***************************************************************************)
\* the acceptance predicate as the specification words it
Acceptable(d) ==
    /\ Less(Zero, d.temperature)
    /\ (d.viscosityValue # Zero \/ d.SiO2 # Zero)

\* the samples of seq that came from an import
FromImport(ref, seq) == IF ref \in FilterRefs THEN seq ELSE <<>>

\* C1: every sample that an import hands to onDataLoaded has a
\* temperature above 0 and a viscosityValue or an SiO2 other than 0; no
\* other sample reaches the application's data, or the view's, through an
\* import.
C1_ImportedSamplesAcceptable ==
    /\ \A k \in 1..Len(validData) : Acceptable(validData[k])
    /\ \A k \in 1..Len(FromImport(viscosityRef, viscosityData)) :
           Acceptable(viscosityData[k])
    /\ \A k \in 1..Len(FromImport(dataRef, data)) : Acceptable(data[k])

\* an import has been handed over whose rows held one with a temperature
\* not above 0 and one with neither viscosity nor SiO2, both left out
C1_Witness ==
    /\ viscosityRef \in FilterRefs
    /\ viscosityData = validData
    /\ Len(viscosityData) > 0
    /\ \E i \in 1..Len(parsedData) : AtMost(parsedData[i].temperature, Zero)
    /\ \E i \in 1..Len(parsedData) :
           /\ Less(Zero, parsedData[i].temperature)
           /\ parsedData[i].viscosityValue = Zero
           /\ parsedData[i].SiO2 = Zero

\* C2 as claimed: the ids of the accepted samples are 1..N in output order.
C2_IdsDense ==
    \A k \in 1..Len(validData) : validData[k].sampleID = k

\* C2, amended: the id of the k-th accepted sample is at least k and at
\* most the number of input rows, and it is k exactly when each of the
\* first k input rows was accepted; so the ids are 1..N only when no
\* rejected row comes before an accepted one.
C2_IdsDenseUpToFirstRejected ==
    \A k \in 1..Len(validData) :
        /\ validData[k].sampleID >= k
        /\ validData[k].sampleID <= Len(rawData)
        /\ (validData[k].sampleID = k)
               <=> (\A i \in 1..k : Acceptable(parsedData[i]))

\* an import whose second row of three was rejected: ids 1 and 3
C2_Witness ==
    /\ Len(rawData) = 3
    /\ Len(validData) = 2
    /\ validData[1].sampleID = 1
    /\ validData[2].sampleID = 3
    /\ viscosityData = validData

\* C3: the sample built from the input row at 0-based position i has id
\* i + 1, counted before filtering: one sample per row, the accepted ones
\* keep their ids, which are unique and strictly increasing in output
\* order.
C3_IdIsInputPosition ==
    /\ Len(parsedData) = Len(rawData)
    /\ \A i \in 0..(Len(rawData) - 1) : parsedData[i + 1].sampleID = i + 1
    /\ \A k \in 1..Len(validData) :
           /\ validData[k].sampleID \in 1..Len(parsedData)
           /\ validData[k] = parsedData[validData[k].sampleID]
    /\ \A j, k \in 1..Len(validData) :
           j < k => validData[j].sampleID < validData[k].sampleID

\* an import of three rows whose first row was rejected: ids 2 and 3
C3_Witness ==
    /\ Len(rawData) = 3
    /\ Len(validData) = 2
    /\ validData[1].sampleID = 2
    /\ validData[2].sampleID = 3
    /\ viscosityData = validData

(***************************************************************************)
(* Grouping and projection (DataView), on the data of the last render.     *)
(***************************************************************************)
CompositionFields ==
    {"SiO2", "Al2O3", "FexOy", "Na2O", "K2O", "CaO", "MgO", "TiO2"}

\* the places <<group, index>> of groupedData that hold the sample s
Places(s) ==
    {p \in (1..Len(groupedData)) \X (1..Len(data)) :
        /\ p[2] <= Len(groupedData[p[1]].v)
        /\ groupedData[p[1]].v[p[2]] = s}

RECURSIVE SumOfSizes(_)
SumOfSizes(groups) ==
    IF groups = <<>> THEN 0
    ELSE Len(Head(groups).v) + SumOfSizes(Tail(groups))

\* the samples a and b are in one group
SameGroup(a, b) ==
    \E p \in Places(a) : \E q \in Places(b) : p[1] = q[1]

\* the position of the sample s in seq
PosIn(seq, s) == CHOOSE i \in 1..Len(seq) : seq[i] = s

\* the least position in data of a sample of the g-th group
FirstSeen(g) ==
    CHOOSE i \in 1..Len(data) :
        /\ \E p \in Places(data[i]) : p[1] = g
        /\ \A h \in 1..(i - 1) : \A p \in Places(data[h]) : p[1] # g

\* C4: grouping is a partition of the sample sequence: each sample is in
\* exactly one place of exactly one group, and the group sizes add up to
\* the number of samples.
C4_GroupingIsPartition ==
    /\ \A i \in 1..Len(data) : Cardinality(Places(data[i])) = 1
    /\ SumOfSizes(groupedData) = Len(data)

\* three samples grouped into two groups
C4_Witness ==
    /\ Len(data) = 3
    /\ Len(groupedData) = 2
    /\ SumOfSizes(groupedData) = 3

\* x rounded to hundredths, as a number (so that -0.00 is 0.00): the
\* multiple of 0.01 nearest to x, the one of the greater magnitude of
\* two; a number that is not finite, and one from 10^21 on, is itself
HundredthsOf(neg, n) == Decimal(neg, n, Len(n) - 2)
Round2(x) ==
    IF x.kind # "fin" \/ x.e > 21 THEN x
    ELSE HundredthsOf(x.neg, NearestHundredths(x.ds, x.e))

SameRounded(a, b) == \A f \in CompositionFields : Round2(a[f]) = Round2(b[f])

\* C5 as claimed: two samples of one sample set are in the same group if
\* and only if their eight composition fields, each rounded to two
\* decimals, are pairwise identical.
C5_SameGroupIffSameRounded ==
    \A i, j \in 1..Len(data) :
        SameGroup(data[i], data[j]) <=> SameRounded(data[i], data[j])

\* the fields of a and b are less than 0.01 apart
DifferBeyondSecondDecimal(a, b) ==
    \A f \in CompositionFields :
        Less(Magnitude(Minus(a[f], b[f])), Millionths(10000))

\* C6 as claimed: samples whose composition fields differ only beyond the
\* second decimal place get the same signature and the same group.
C6_CloseFieldsSameGroup ==
    \A i, j \in 1..Len(data) :
        DifferBeyondSecondDecimal(data[i], data[j])
            => /\ getCompositionSignature(data[i])
                      = getCompositionSignature(data[j])
               /\ SameGroup(data[i], data[j])

\* 100 x y for the fixed-point magnitude y
Hundredfold(y) ==
    IF y.s >= 2 THEN Fix(y.D, y.s - 2) ELSE Fix(y.D \o Zeros(2 - y.s), 0)

\* the natural ds without its leading zeros
Natural(ds) == SubSeq(ds, LeadingZeros(ds) + 1, Len(ds))

\* y + 1/2 for the fixed-point magnitude y, y.s >= 1, written in n places
\* (one more after a carry), and the digits of t in front of its last s
HalfAddedIn(y, n) ==
    Sum(Zeros(n - Len(y.D)) \o y.D,
        Zeros(n - y.s) \o <<5>> \o Zeros(y.s - 1))
WholeOf(t, s) == Natural(SubSeq(t, 1, Len(t) - s))

\* the integer nearest to the fixed-point magnitude y, the greater of two
NearestWhole(y) ==
    IF y.s = 0 THEN Natural(y.D)
    ELSE WholeOf(HalfAddedIn(y, Max(Len(y.D), y.s)), y.s)

\* whether 100 x 0.ds x 10^e lies halfway between two integers
HalfwayHundredth(ds, e) == Len(ds) = e + 3 /\ ds[Len(ds)] = 5

\* the integer nearest to 100 v, the greater of two, for the double v of
\* shortest decimal 0.ds x 10^e: worked out on the exact value of v by
\* adding a half and cutting off.  v is within v x 2^-53 of its decimal,
\* which, when it is below 10^13, has at most 15 digits and is not
\* halfway, is farther than that from halfway: the decimal then stands
\* for v.
NearestHundredfold(ds, e) ==
    IF e <= 13 /\ Len(ds) <= 15 /\ ~HalfwayHundredth(ds, e)
        THEN NearestWhole(Hundredfold(FixOf(ds, e)))
    ELSE NearestWhole(Hundredfold(ExactOf(ToDouble(ds, e))))

\* what the rendering of x to two decimals tells of x: its sign and the
\* integer nearest to 100 times its magnitude; a number that is not
\* finite, and one from 10^21 on, is rendered in full
HundredthsCell(x) ==
    IF x.kind # "fin" \/ x.e > 21
        THEN [own |-> x, neg |-> FALSE, n |-> <<>>]
    ELSE IF IsZero(x) THEN [own |-> Zero, neg |-> FALSE, n |-> <<>>]
    ELSE [own |-> Zero, neg |-> x.neg, n |-> NearestHundredfold(x.ds, x.e)]

\* the composition fields of the sample a, and their cells
Composition(a) ==
    <<a.SiO2, a.Al2O3, a.FexOy, a.Na2O, a.K2O, a.CaO, a.MgO, a.TiO2>>
CellsOf(a) ==
    <<HundredthsCell(a.SiO2), HundredthsCell(a.Al2O3),
      HundredthsCell(a.FexOy), HundredthsCell(a.Na2O),
      HundredthsCell(a.K2O), HundredthsCell(a.CaO),
      HundredthsCell(a.MgO), HundredthsCell(a.TiO2)>>

\* what is rendered of the sample a: its composition, and the signature
\* and the cells that go with it
RenderingOf(a) == <<Composition(a), getCompositionSignature(a), CellsOf(a)>>

\* the renderings of the samples the rows of RowPool give, worked out
\* once, and the rendering of any sample, looked up there when its
\* composition is that of a row of the pool
PoolRenderings == {RenderingOf(ParseRow(r, 0)) : r \in RowPool}
RenderingIn(a, known) ==
    IF known = {} THEN RenderingOf(a) ELSE CHOOSE t \in known : TRUE
Rendered(a) ==
    RenderingIn(a, {t \in PoolRenderings : t[1] = Composition(a)})
RenderedAll(seq) == <<>> \o [i \in 1..Len(seq) |-> Rendered(seq[i])]

\* the signatures of the samples of seq
SignaturesOf(seq) ==
    <<>> \o [i \in 1..Len(seq) |-> getCompositionSignature(seq[i])]

\* the samples of data, rendered as r, have the same signature, and are in
\* the same group, exactly when they have the same cells
SameExactlyWhen(sameSignature, sameGroup, sameCells) ==
    /\ sameSignature <=> sameCells
    /\ sameGroup <=> sameCells
CellsTellGroups(r) ==
    \A i, j \in 1..Len(data) :
        i < j => SameExactlyWhen(r[i][2] = r[j][2],
                                 SameGroup(data[i], data[j]),
                                 r[i][3] = r[j][3])

\* C6, amended: two samples get the same signature, and the same group,
\* exactly when their composition fields agree pairwise in what is
\* rendered: the sign, and the magnitude rounded to the nearest hundredth
\* (the greater of two).  So 53.5 and 53.4999994 share a group; 53.5 and
\* 53.506, less than 0.01 apart, do not; and neither do -0.001 and 0.001,
\* rendered -0.00 and 0.00.
C6_SameCellsSameGroup == CellsTellGroups(RenderedAll(data))

\* 53.5 and 53.4999994 in one group
C6_Witness ==
    \E i, j \in 1..Len(data) :
        /\ data[i].SiO2 = Millionths(53500000)
        /\ data[j].SiO2 = Decimal(FALSE, <<5,3,4,9,9,9,9,9,4>>, 2)
        /\ SameGroup(data[i], data[j])

\* C7: within each group the samples are in the order of the input, and
\* the keys of groupedData are in the order in which the groups are first
\* seen in the input.
C7_GroupingPreservesOrder ==
    /\ \A g \in 1..Len(groupedData) :
           \A j, k \in 1..Len(groupedData[g].v) :
               j < k => /\ Places(groupedData[g].v[j]) # {}
                        /\ Places(groupedData[g].v[k]) # {}
                        /\ PosIn(data, groupedData[g].v[j])
                               < PosIn(data, groupedData[g].v[k])
    /\ Len(groupKeys) = Len(groupedData)
    /\ \A g \in 1..Len(groupedData) :
           /\ groupKeys[g] = groupedData[g].k
           /\ Len(groupedData[g].v) > 0
    /\ \A g, h \in 1..Len(groupedData) :
           g < h => FirstSeen(g) < FirstSeen(h)

\* the first group holds the first and the third sample, the second group
\* the second sample
C7_Witness ==
    /\ Len(data) = 3
    /\ Len(groupedData) = 2
    /\ groupedData[1].v = <<data[1], data[3]>>
    /\ groupedData[2].v = <<data[2]>>

\* C8: the projection of the selected group is that group sorted
\* ascending by temperature, samples of equal temperature in the order
\* they have in the group.
C8_ProjectionSortedStable ==
    (selectedGroupSignature # <<>>
     /\ HasKey(groupedData, selectedGroupSignature))
    => /\ Len(currentData) = Len(Get(groupedData, selectedGroupSignature))
       /\ \A j \in 1..Len(currentData) :
              \E k \in 1..Len(currentData) :
                  currentData[k]
                      = Get(groupedData, selectedGroupSignature)[j]
       /\ \A j, k \in 1..Len(currentData) :
              j < k =>
                  /\ AtMost(currentData[j].temperature,
                            currentData[k].temperature)
                  /\ currentData[j].temperature = currentData[k].temperature
                         => PosIn(Get(groupedData, selectedGroupSignature),
                                  currentData[j])
                            < PosIn(Get(groupedData, selectedGroupSignature),
                                    currentData[k])

\* the temperatures of a group of A, B, C
GroupTemperatures(rows) == [i \in 1..Len(rows) |-> rows[i].temperature]

\* a group A, B, C of temperatures 1450, 1420, 1450 projected to B, A, C
C8_Witness ==
    /\ selectedGroupSignature # <<>>
    /\ HasKey(groupedData, selectedGroupSignature)
    /\ GroupTemperatures(Get(groupedData, selectedGroupSignature))
           = <<Millionths(1450000000), Millionths(1420000000),
               Millionths(1450000000)>>
    /\ currentData = <<Get(groupedData, selectedGroupSignature)[2],
                       Get(groupedData, selectedGroupSignature)[1],
                       Get(groupedData, selectedGroupSignature)[3]>>

(***************************************************************************)
(* Selection (DataView): the two effects.                                  *)
(***************************************************************************)
\* the selection the next render will have
QueuedSelection ==
    IF pendingSel # <<>> THEN pendingSel[1] ELSE selectedGroupSignature

\* the selection of the last render is a key of its grouping
SelectionIsKey ==
    /\ selectedGroupSignature # <<>>
    /\ HasKey(groupedData, selectedGroupSignature)

\* C9: when the effects have run after a render whose data is another,
\* non-empty collection than that of the render before, the selection is
\* the first key of the new grouping, whether or not the selection of
\* before is a key of it.
C9_ResetOnNewCollection ==
    [][(fx.pending /\ ~fx'.pending /\ fx.data /\ Len(data) > 0)
           => QueuedSelection' = groupKeys[1]]_vars

\* the effects have run after a change of collection and have queued the
\* first key of the new grouping, while the selection of before is
\* another key of the new grouping
C9_Witness ==
    /\ ~fx.pending
    /\ dataRef # prevDataRef
    /\ SelectionIsKey
    /\ selectedGroupSignature # groupKeys[1]
    /\ pendingSel = <<groupKeys[1]>>

\* C10 as claimed: when the effects run and the selection is still a key
\* of the grouping, the selection is kept; it becomes the first key only
\* when it is empty or no key.
C10_KeptWheneverStillKey ==
    [][(fx.pending /\ ~fx'.pending /\ Len(groupKeys) > 0)
           => QueuedSelection' = IF SelectionIsKey
                                 THEN selectedGroupSignature
                                 ELSE groupKeys[1]]_vars

\* C10, amended: when the effects run after a render whose data is the
\* collection of the render before and the selection is still a key of
\* the grouping, the selection is kept; it becomes the first key only
\* when it is empty, no key, or the collection is another one.  A render
\* takes over the queued selection or, when there is none, keeps its own.
C10_KeptUnlessNewCollection ==
    [][/\ (fx.pending /\ ~fx'.pending /\ Len(groupKeys) > 0)
           => QueuedSelection' = IF SelectionIsKey /\ ~fx.data
                                 THEN selectedGroupSignature
                                 ELSE groupKeys[1]
       /\ (~fx.pending /\ fx'.pending)
           => selectedGroupSignature' = QueuedSelection]_vars

\* the effects have run after a render of the same collection with the
\* second key selected, and have left the selection alone
C10_Witness ==
    /\ ~fx.pending
    /\ ~needRender
    /\ dataRef = prevDataRef
    /\ Len(groupKeys) >= 2
    /\ selectedGroupSignature = groupKeys[2]
    /\ pendingSel = <<>>

\* C11: when the effects have run after a render that changed the set of
\* group keys (their number or their membership), the selection is the
\* first key of the new grouping, or empty when there is none.
C11_ResetOnKeySetChange ==
    [][(fx.pending /\ ~fx'.pending /\ fx.keys)
           => QueuedSelection' = IF Len(groupKeys) > 0 THEN groupKeys[1]
                                 ELSE <<>>]_vars

\* the effects have run after a render that changed the set of keys and
\* have queued the first key, while the selection of before is another
\* key of the new grouping
C11_Witness ==
    /\ ~fx.pending
    /\ fx.keys
    /\ SelectionIsKey
    /\ selectedGroupSignature # groupKeys[1]
    /\ pendingSel = <<groupKeys[1]>>

(***************************************************************************)
(* Field resolution (ProjectBuilder.fuzzyGet, fuzzyGetStr and the lookups  *)
(* of processImportedData).                                                *)
(***************************************************************************)
KeyParts ==
    {kSiO2, kAl2O3, kFe, kFexOy, kNa2O, kK2O, kCaO, kMgO, kTiO2, kTemp,
     kTemperature, kViscosity, kLog10, kValue, kRemark, kSource, kName}

\* the positions in keys of the keys whose lower-cased form contains the
\* lower-cased part
MatchingKeys(keys, part) ==
    {i \in 1..Len(keys) : includes(toLowerCase(keys[i]), toLowerCase(part))}

Least(S) == CHOOSE x \in S : \A y \in S : x <= y

\* the number a value parses to, 0 when it does not parse
ParsedOrZero(v) == NaNToZero(parseFloat(v))

\* the number under the first of the matching keys M, 0 when there is none
NumberUnderFirst(obj, keys, M) ==
    IF M = {} THEN Zero ELSE ParsedOrZero(Get(obj, keys[Least(M)]))

\* what the claim says fuzzyGet gives for a row that is an object
FirstMatchNumber(row, part) ==
    NumberUnderFirst(row.obj, ObjectKeys(row.obj),
                     MatchingKeys(ObjectKeys(row.obj), part))

\* the numbers fuzzyGet reads from the rows, written out by hand: the row,
\* the key part and the number
NumbersRead ==
    {<<RowDup, kSiO2, Zero>>,
     <<RowDup, kTemp, Millionths(1460000000)>>,
     <<RowDup, kViscosity, Millionths(2200000)>>,
     <<RowDup, kMgO, Zero>>,
     <<RowRank, kSiO2, Millionths(51200000)>>,
     <<RowRank, kTemp, Millionths(1450000000)>>,
     <<RowRank, kTemperature, Millionths(9000000)>>,
     <<RowRank, kViscosity, Millionths(2000000)>>,
     <<RowFeNote, kFe, Zero>>,
     <<RowFeNote, kFexOy, Millionths(10600000)>>,
     <<RowFeNote, kSiO2, Millionths(48200000)>>,
     <<RowFeNote, kTemp, Zero>>,
     <<RowFeNote, kTemperature, Millionths(1470000000)>>,
     <<RowFeNote, kValue, Millionths(1900000)>>,
     <<RowFeNote, kSource, Zero>>,
     <<RowName, kName, Zero>>,
     <<RowName, kSiO2, Millionths(47000000)>>,
     <<RowName, kViscosity, Zero>>,
     <<RowName, kLog10, Millionths(2500000)>>,
     <<RowNear, kSiO2, Decimal(FALSE, <<5,3,4,9,9,9,9,9,4>>, 2)>>,
     <<RowNear, kTemp, Millionths(1450000000)>>,
     <<RowNear, kViscosity, Millionths(2280000)>>,
     <<RowFoo, kSiO2, Zero>>,
     <<RowSci, kFe, Decimal(FALSE, <<1>>, -6)>>,
     <<RowSci, kFexOy, Millionths(10600000)>>,
     <<RowSci, kSiO2, Infinite(FALSE)>>,
     <<RowSci, kTemp, Millionths(1450000000)>>,
     <<RowSci, kViscosity, Decimal(TRUE, <<1>>, -6)>>,
     <<RowSci, kValue, Millionths(1900000)>>,
     <<RowSci, kK2O,
       Decimal(FALSE, <<6,1,8,9,7,0,0,1,9,6,4,2,6,9,0,2>>, 27)>>,
     <<NullRow, kSiO2, Zero>>}

\* for each row of ResolvePool and each key part: what fuzzyGet gives and
\* what the claim says it gives, worked out once
ResolvedInPool ==
    {<<r, part, fuzzyGet(r, part), FirstMatchNumber(r, part)>> :
        r \in ResolvePool, part \in KeyParts}

\* C12: fuzzyGet(row, keyPart) is the value, parsed as a number, under the
\* first key in enumeration order whose lower-cased form contains the
\* lower-cased keyPart; it is 0 when no key matches and 0 when that value
\* does not parse, whatever later matching keys hold.  The numbers read
\* from the rows of the pool are those of NumbersRead.
C12_FirstMatchWins ==
    \A i \in 1..Len(rawData) :
        /\ \A t \in ResolvedInPool : rawData[i] = t[1] => t[3] = t[4]
        /\ \A t \in ResolvedInPool : \A n \in NumbersRead :
               (rawData[i] = t[1] /\ n[1] = t[1] /\ n[2] = t[2])
                   => t[3] = n[3]

\* the values under the keys of row that match part
MatchingValues(row, part) ==
    [i \in MatchingKeys(ObjectKeys(row.obj), part)
        |-> Get(row.obj, ObjectKeys(row.obj)[i])]

\* a row was imported in which two keys match "SiO2", the first holding
\* text that does not parse and the second a number: SiO2 is 0
C12_Witness ==
    \E i \in 1..Len(rawData) :
        /\ DOMAIN MatchingValues(rawData[i], kSiO2) = {1, 2}
        /\ parseFloat(MatchingValues(rawData[i], kSiO2)[1]) = NaN
        /\ ParsedOrZero(MatchingValues(rawData[i], kSiO2)[2]) # Zero
        /\ parsedData[i].SiO2 = Zero

\* the first element of seq other than none, none when there is no such
FirstOther(seq, none) ==
    IF \A j \in 1..Len(seq) : seq[j] = none THEN none
    ELSE seq[Least({j \in 1..Len(seq) : seq[j] # none})]

\* C13: the lookups with several candidates take them in their fixed order
\* and yield the first result other than 0 (other than the empty string
\* for the label): Fe then FexOy; temp then temperature; viscosity, log10,
\* then Value; remark, source, then name.  The result is 0 or empty only
\* when every candidate gives 0 or empty.
C13_CandidatesInPriorityOrder ==
    \A i \in 1..Len(rawData) :
        /\ parsedData[i].FexOy
               = FirstOther(<<fuzzyGet(rawData[i], kFe),
                              fuzzyGet(rawData[i], kFexOy)>>, Zero)
        /\ parsedData[i].temperature
               = FirstOther(<<fuzzyGet(rawData[i], kTemp),
                              fuzzyGet(rawData[i], kTemperature)>>, Zero)
        /\ parsedData[i].viscosityValue
               = FirstOther(<<fuzzyGet(rawData[i], kViscosity),
                              fuzzyGet(rawData[i], kLog10),
                              fuzzyGet(rawData[i], kValue)>>, Zero)
        /\ parsedData[i].Remark
               = FirstOther(<<fuzzyGetStr(rawData[i], kRemark),
                              fuzzyGetStr(rawData[i], kSource),
                              fuzzyGetStr(rawData[i], kName)>>, <<>>)

\* two rows were imported: one whose iron, temperature, viscosity and
\* label come from the last candidate (FexOy, temperature, Value) or the
\* second (source), and one whose "temp" and "temperature" both resolve,
\* to different numbers
C13_Witness ==
    /\ \E i \in 1..Len(rawData) :
           /\ fuzzyGet(rawData[i], kFe) = Zero
           /\ parsedData[i].FexOy = Millionths(10600000)
           /\ fuzzyGet(rawData[i], kTemp) = Zero
           /\ parsedData[i].temperature = Millionths(1470000000)
           /\ fuzzyGet(rawData[i], kViscosity) = Zero
           /\ fuzzyGet(rawData[i], kLog10) = Zero
           /\ parsedData[i].viscosityValue = Millionths(1900000)
           /\ fuzzyGetStr(rawData[i], kRemark) = <<>>
           /\ parsedData[i].Remark = <<"l","a","b">>
    /\ \E i \in 1..Len(rawData) :
           /\ fuzzyGet(rawData[i], kTemperature) = Millionths(9000000)
           /\ parsedData[i].temperature = Millionths(1450000000)

(***************************************************************************)
(* Import of delimited text (ProjectBuilder.handleFileUpload).             *)
(***************************************************************************)
\* C14: an import that hands over no sample tells the user that no valid
\* data was found, whatever the file: also a text of a header line alone.
C14_EmptyResultSignaled ==
    (reading = {} /\ ~isConnected) => alert = "no valid data"

\* the cells of row that are undefined and that the lookup of part reads
ReadsUndefined(row, part) ==
    /\ MatchingKeys(ObjectKeys(row.obj), part) # {}
    /\ MatchingValues(row, part)[Least(MatchingKeys(ObjectKeys(row.obj), part))]
           = Undefined

\* C16: a header without a value on a ragged line holds undefined, which
\* the numeric lookup reads as 0 and the string lookup as the empty string.
C16_UndefinedReadAsDefault ==
    \A i \in 1..Len(rawData) : \A part \in KeyParts :
        ReadsUndefined(rawData[i], part)
            => /\ fuzzyGet(rawData[i], part) = Zero
               /\ fuzzyGetStr(rawData[i], part) = <<>>

\* white space only, or nothing at all
IsBlank(line) == \A j \in 1..Len(line) : line[j] \in WhiteSpaceChars

\* the positions of the lines that are not blank
NonBlankAt(lines) == {p \in 1..Len(lines) : ~IsBlank(lines[p])}

\* the n-th least element of S
Nth(S, n) == CHOOSE p \in S : Cardinality({q \in S : q < p}) = n - 1

\* the row that the n-th data line of lines is decoded to
DataRow(lines, n) ==
    LineObject(TrimAll(split(lines[Nth(NonBlankAt(lines), 1)], ",")),
               lines[Nth(NonBlankAt(lines), n + 1)])

\* the rows decoded from lines are those of its non-blank lines after the
\* first of them, in order, and the ids are their positions among these
DecodedFrom(lines) ==
    Cardinality(NonBlankAt(lines)) >= 2
        => /\ Len(rawData) = Cardinality(NonBlankAt(lines)) - 1
           /\ \A n \in 1..Len(rawData) :
                  /\ rawData[n] = DataRow(lines, n)
                  /\ parsedData[n].sampleID = n

\* C17: the first non-blank line of a text is its header; blank lines
\* before, between and after the data lines give no row, and the sample
\* id is the position among the non-blank lines after the header.
C17_BlankLinesSkipped == DecodedFrom(split(text, "\n"))

\* a text with a line of white space before the header and an empty line
\* between its two data lines was imported: the samples have the ids 1
\* and 2
C17_Witness ==
    /\ text = JoinLines(<<LineSpaces, LineHeader, LineFull, <<>>,
                          LineRagged>>)
    /\ Len(validData) = 2
    /\ validData[1].sampleID = 1
    /\ validData[1].temperature = Millionths(1488000000)
    /\ validData[2].sampleID = 2
    /\ validData[2].temperature = Millionths(1450000000)

\* the text has fewer than two lines that are not blank: no header, or a
\* header and no row
NotBlankIn(lines) == {i \in 1..Len(lines) : ~IsBlank(lines[i])}
WithoutRows(t) == Cardinality(NotBlankIn(split(t, "\n"))) < 2

\* the step is an onload whose file cannot be decoded, whose text has no
\* rows, or whose rows are all rejected
ImportFails ==
    \E f \in reading :
        /\ reading' = reading \ {f}
        /\ \/ f.bad
           \/ ~f.isExcel /\ WithoutRows(f.text)
           \/ validData' = <<>>

\* C15: a failed import, be it a decode failure, a text without rows (the
\* handler returns without a message) or an import without an accepted
\* row, calls neither onDataLoaded nor onConnect: the sample set, the
\* connection label, what the view shows and the selection stay as they
\* were.
C15_FailedImportKeepsDisplay ==
    [][ImportFails => UNCHANGED <<appVars, viewVars, schedVars, needRender>>]_vars

\* the import of a text of a header and no row has ended, without a
\* message, while the view shows an imported set with a group selected
C15_Witness ==
    /\ alert = ""
    /\ text = LineHeader
    /\ reading = {}
    /\ validData = viscosityData
    /\ shown
    /\ data = viscosityData
    /\ connectedDbInfo = <<"Imported File", FoundRows(3)>>
    /\ SelectionIsKey
    /\ pendingSel = <<>>

(***************************************************************************)
(* The data model: composition fields (types.ts, ChemicalData).            *)
(***************************************************************************)
\* C18: each of the eight composition fields of every accepted sample is
\* at least 0, whatever the cells of the imported rows hold.
C18_CompositionNonNegative ==
    \A k \in 1..Len(validData) : \A f \in CompositionFields :
        AtMost(Zero, validData[k][f])

(***************************************************************************)
(* DataView: the representative of the selected group.                     *)
(***************************************************************************)
\* group[p] has the least temperature of group, and is the first to have it
FirstOfLeastTemperature(group, p) ==
    \A q \in 1..Len(group) :
        /\ AtMost(group[p].temperature, group[q].temperature)
        /\ q < p => Less(group[p].temperature, group[q].temperature)

\* the composition panel shows the fields of the sample s
PanelShows(s) == \A f \in CompositionFields : OptionalField(f) = <<s[f]>>

\* the composition panel shows the fields of the sample of the selected
\* group that is first in the order of temperature
PanelShowsFirstOf(group) ==
    \E p \in 1..Len(group) :
        FirstOfLeastTemperature(group, p) /\ PanelShows(group[p])

\* the samples of a sequence
Samples(seq) == {seq[i] : i \in 1..Len(seq)}

\* the first sample of data that the group of key sig holds
FirstOfGroup(sig) ==
    data[Least({j \in 1..Len(data) :
                   data[j] \in Samples(Get(groupedData, sig))})]

\* the option of the selected group
SelectedOption ==
    sampleOptions[CHOOSE i \in 1..Len(sampleOptions) :
                      sampleOptions[i].value = selectedGroupSignature]

\* C19 as stated: the composition panel and the label of the selected
\* group's option are those of the first sample of the projected series;
\* with an empty series no field is shown.
C19_RepresentativeGivesCompositionAndLabel ==
    IF currentData = <<>>
    THEN \A f \in CompositionFields : OptionalField(f) = <<>>
    ELSE /\ SelectionIsKey
         /\ PanelShowsFirstOf(Get(groupedData, selectedGroupSignature))
         /\ SelectedOption.label = OptionLabel(currentData[1])

\* C19, amended: the composition panel shows the first sample of the
\* projected series, and nothing for an empty series; the label of each
\* option is that of the first sample of its group in the order of the
\* sample set.
C19_RepresentativeGivesComposition ==
    /\ IF currentData = <<>>
       THEN \A f \in CompositionFields : OptionalField(f) = <<>>
       ELSE /\ SelectionIsKey
            /\ PanelShowsFirstOf(Get(groupedData, selectedGroupSignature))
    /\ \A i \in 1..Len(sampleOptions) :
           sampleOptions[i].label
               = OptionLabel(FirstOfGroup(sampleOptions[i].value))

\* the view shows a group of two samples that differ in SiO2 and whose
\* second has the lower temperature: the panel shows the second, the
\* option is labelled from the first
C19_Witness ==
    /\ shown
    /\ Len(currentData) = 2
    /\ SelectionIsKey
    /\ Less(Get(groupedData, selectedGroupSignature)[2].temperature,
            Get(groupedData, selectedGroupSignature)[1].temperature)
    /\ Get(groupedData, selectedGroupSignature)[1].SiO2
           # Get(groupedData, selectedGroupSignature)[2].SiO2
    /\ PanelShows(Get(groupedData, selectedGroupSignature)[2])
    /\ SelectedOption.label = <<"S","a","m","p","l","e"," ","1">>
    /\ currentSample[1].sampleID = 2

(***************************************************************************)
(* App and DataView: one sample set at a time.                             *)
(***************************************************************************)
\* the samples the grouping holds
GroupedSamples == UNION {Samples(groupedData[i].v) : i \in 1..Len(groupedData)}

\* the sample sets that an import or the mock load hands over whole
WholeSets ==
    {<<>>, MOCK_DATA}
        \cup {ValidData(ParsedData(f.rows)) : f \in {g \in FilePool : g.isExcel}}
        \cup {ValidData(ParsedData(JsonData(NonBlankRows(split(f.text, "\n"))))) :
                  f \in {g \in FilePool : ~g.isExcel}}

\* C20: the set the application holds and the set the view was rendered
\* with are each one whole set; the grouping holds exactly the samples of
\* the view's set and the projected series only samples of it: never
\* samples of two sets, never a part of a set.
C20_OneWholeSampleSet ==
    /\ viscosityData \in WholeSets
    /\ data \in WholeSets
    /\ GroupedSamples = Samples(data)
    /\ Samples(currentData) \subseteq Samples(data)

\* a second set has been handed over while the view still shows the first
C20_Witness ==
    /\ shown
    /\ needRender
    /\ data # <<>>
    /\ currentData # <<>>
    /\ viscosityData # <<>>
    /\ Samples(viscosityData) \cap Samples(data) = {}

(***************************************************************************)
(* Loads: imports and mock loads in any order.                             *)
(***************************************************************************)
\* the step is the timeout of a mock load
MockCompletes == connecting /\ ~connecting'

\* the step is an onload that hands rows to processImportedData (the
\* rows of a sheet, or those of a text that has any), of which some are
\* accepted
ImportDelivers ==
    \E f \in reading :
        /\ reading' = reading \ {f}
        /\ ~f.bad
        /\ f.isExcel \/ ~WithoutRows(f.text)
        /\ rawData' # <<>>
        /\ \E i \in 1..Len(parsedData') : Acceptable(parsedData'[i])

\* C21 as claimed: the sample set and the connection label are always
\* those of the load completed last: a mock load leaves MOCK_DATA and the
\* configured host and database (those of the configuration as it is when
\* the load completes), an import with accepted samples leaves these
\* samples and "Imported File" with their count, and no other step changes
\* either.
C21_LabelOfCurrentConfig ==
    [][IF MockCompletes
       THEN /\ viscosityData' = MOCK_DATA
            /\ connectedDbInfo' = <<dbConfig'.host, dbConfig'.database>>
       ELSE IF ImportDelivers
       THEN /\ viscosityData' = validData'
            /\ viscosityData' # <<>>
            /\ connectedDbInfo'
                   = <<"Imported File", FoundRows(Len(viscosityData'))>>
       ELSE UNCHANGED <<viscosityData, connectedDbInfo>>]_vars

\* C21, amended: the sample set and the connection label are always those
\* of the load completed last: a mock load leaves MOCK_DATA and the host
\* and the database that were configured when its button was clicked,
\* whatever was typed into the configuration since; an import with
\* accepted samples leaves these samples and "Imported File" with their
\* count, and no other step changes either.
C21_SetAndLabelOfLastLoad ==
    [][IF MockCompletes
       THEN /\ viscosityData' = MOCK_DATA
            /\ connectedDbInfo' = <<timerConfig.host, timerConfig.database>>
       ELSE IF ImportDelivers
       THEN /\ viscosityData' = validData'
            /\ viscosityData' # <<>>
            /\ connectedDbInfo'
                   = <<"Imported File", FoundRows(Len(viscosityData'))>>
       ELSE UNCHANGED <<viscosityData, connectedDbInfo>>]_vars

\* a mock load has completed after an import had delivered samples, the
\* host having been edited between its click and its timeout: the label
\* names the host of the click, not the configured one
C21_Witness ==
    /\ validData # <<>>
    /\ viscosityData = MOCK_DATA
    /\ ~connecting
    /\ connectedDbInfo = <<timerConfig.host, timerConfig.database>>
    /\ connectedDbInfo[1] # dbConfig.host

(***************************************************************************)
(* DataView: grouping and projection of nothing.                           *)
(***************************************************************************)
\* the signatures of the samples of all the sets, and the empty string
KnownSignatures ==
    {<<>>} \cup UNION {KeySet(GroupedData(w)) : w \in WholeSets}

\* C22: the grouping of no samples is the empty mapping, and the series of
\* an empty signature or of one that is no key is the empty sequence: both
\* are values, nothing is raised.
C22_EmptyInEmptyOut ==
    /\ data = <<>> => groupedData = <<>> /\ GroupedData(data) = <<>>
    /\ ~SelectionIsKey => currentData = <<>>
    /\ \A sig \in KnownSignatures :
           (sig = <<>> \/ ~HasKey(groupedData, sig))
               => CurrentData(groupedData, sig) = <<>>

\* the view was rendered with a set of which the selection is no key
C22_Witness ==
    /\ shown
    /\ groupedData # <<>>
    /\ selectedGroupSignature # <<>>
    /\ ~HasKey(groupedData, selectedGroupSignature)
    /\ currentData = <<>>

\* the elements of the set S of integers in ascending order
RECURSIVE Ascending(_)
Ascending(S) ==
    IF S = {} THEN <<>> ELSE <<Least(S)>> \o Ascending(S \ {Least(S)})

\* the samples of seq at the positions ps
SamplesAt(seq, ps) == [g \in 1..Len(ps) |-> seq[ps[g]]]

\* the grouping a sample sequence determines, told from the sequence and
\* the signatures sigs of its samples alone: a key for each signature, in
\* the order of the first samples that have it, and under each key the
\* samples that have it, in the order of the sequence
GroupUnder(seq, sigs, i) ==
    [k |-> sigs[i],
     v |-> SamplesAt(seq, Ascending({j \in 1..Len(seq) : sigs[j] = sigs[i]}))]
GroupsAtFirsts(seq, sigs, firsts) ==
    [g \in 1..Len(firsts) |-> GroupUnder(seq, sigs, firsts[g])]
GroupingBySignatures(seq, sigs) ==
    GroupsAtFirsts(seq, sigs,
        Ascending({i \in 1..Len(seq) : \A h \in 1..(i - 1) : sigs[h] # sigs[i]}))
GroupingDeterminedBy(seq) == GroupingBySignatures(seq, SignaturesOf(seq))

\* C23: grouping is deterministic: the mapping the view holds is the one
\* its sample sequence determines, whatever array the samples came in and
\* whatever was grouped before, so that a render that groups anew an equal
\* sequence yields the same mapping: the same keys in the same order, the
\* same samples in the same order in each group.
C23_GroupingDeterminedBySequence == groupedData = GroupingDeterminedBy(data)

\* the last render grouped another array and got the keys the render
\* before had: the same file was imported twice
C23_Witness ==
    /\ fx.data
    /\ ~fx.keys
    /\ dataRef # prevDataRef
    /\ prevDataRef # InitialRef
    /\ groupedData # <<>>
    /\ data = validData

(***************************************************************************)
(* End to end: import, grouping, projection.                               *)
(***************************************************************************)
\* the points <<temperature, viscosityValue>> of a series
Points(rows) ==
    [i \in 1..Len(rows) |-> <<rows[i].temperature, rows[i].viscosityValue>>]

\* the same value in each of the eight composition fields
SameComposition(a, b) == \A f \in CompositionFields : a[f] = b[f]

\* the scenario's rows are imported: two samples are accepted; once the
\* view is rendered with them they form one group, and once that group is
\* selected the series is 1470 -> 2.232, 1488 -> 2.268
ScenarioOutcome ==
    /\ Len(validData) = 2
    /\ data = validData
           => /\ Len(groupedData) = 1
              /\ currentData # <<>>
                     => Points(currentData)
                            = << <<Millionths(1470000000),
                                   Millionths(2232000)>>,
                                 <<Millionths(1488000000),
                                   Millionths(2268000)>> >>

\* the rows of the pool that hold 53.5, or 53.4999994, for SiO2 and
\* nothing else of the composition, under the column names SiO2 and
\* SIO2_WT, their temperature under temp, temperature and Temp(C) and
\* their viscosity under viscosity, log10 and Log10_Viscosity
VariantRows == {RowA, RowB, RowNear}

\* the samples of the view that come from rows of VariantRows are in one
\* group
VariantsGrouped ==
    \A i, j \in 1..Len(data) :
        (/\ rawData[data[i].sampleID] \in VariantRows
         /\ rawData[data[j].sampleID] \in VariantRows)
            => SameGroup(data[i], data[j])

\* C24: the rows {SiO2: "53.5", temp: "1488", viscosity: "2.268"} and
\* {SiO2: "53.5", temperature: "1470", log10: "2.232"} give two accepted
\* samples in one group, projected to 1470 -> 2.232, 1488 -> 2.268; and
\* whatever the names of the columns of two rows, samples resolved to the
\* same composition are in the same group, as are the samples of the rows
\* that name one composition through different columns.
C24_VariantNamesOneGroup ==
    /\ rawData = <<RowA, RowB>> => ScenarioOutcome
    /\ \A i, j \in 1..Len(data) :
           SameComposition(data[i], data[j]) => SameGroup(data[i], data[j])
    /\ data = validData => VariantsGrouped

\* the scenario's rows are imported, rendered and projected
C24_Witness ==
    /\ rawData = <<RowA, RowB>>
    /\ shown
    /\ data = validData
    /\ Len(groupedData) = 1
    /\ Points(currentData)
           = << <<Millionths(1470000000), Millionths(2232000)>>,
                <<Millionths(1488000000), Millionths(2268000)>> >>

(***************************************************************************)
(* Import: normalisation as a filter.                                      *)
(***************************************************************************)
\* the sample of defaults at 1-based position i
DefaultSample(i) ==
    [sampleID |-> i, SiO2 |-> Zero, Al2O3 |-> Zero, FexOy |-> Zero,
     Na2O |-> Zero, K2O |-> Zero, CaO |-> Zero, MgO |-> Zero, TiO2 |-> Zero,
     temperature |-> Zero, viscosityValue |-> Zero, Remark |-> <<>>,
     actualMeasuredData |-> 1]

\* the positions of the candidates that satisfy the acceptance predicate
AcceptedAt(candidates) ==
    {i \in 1..Len(candidates) : Acceptable(candidates[i])}

\* out is the subsequence of candidates at the positions of S, in order
SubsequenceAt(out, candidates, S) ==
    /\ Len(out) = Cardinality(S)
    /\ \A k \in 1..Len(out) : out[k] = candidates[Nth(S, k)]

\* C25: there is one candidate for each input row, at its position, a
\* null row giving the candidate of defaults; the output is the candidates
\* that satisfy the acceptance predicate, each once, in input order.
C25_NormalisationIsFilter ==
    /\ Len(parsedData) = Len(rawData)
    /\ \A i \in 1..Len(rawData) :
           /\ parsedData[i].sampleID = i
           /\ rawData[i].isNull => parsedData[i] = DefaultSample(i)
    /\ SubsequenceAt(validData, parsedData, AcceptedAt(parsedData))

\* three rows were imported, the second of them null: the first and the
\* third are the output
C25_Witness ==
    /\ Len(rawData) = 3
    /\ rawData[2].isNull
    /\ Len(validData) = 2
    /\ validData[1] = parsedData[1]
    /\ validData[2] = parsedData[3]

(***************************************************************************)
(* DataView: the projection and its input.                                 *)
(***************************************************************************)
\* the number of times that s occurs in seq
Count(seq, s) == Cardinality({i \in 1..Len(seq) : seq[i] = s})

\* the same samples, each as many times
IsPermutation(a, b) ==
    /\ Len(a) = Len(b)
    /\ \A i \in 1..Len(a) : Count(a, a[i]) = Count(b, a[i])

\* C26: a render that projects another series from the same sample array
\* leaves the grouping, the order inside every group and the sample
\* sequence as they were, and the series is a permutation of the selected
\* group.
C26_ProjectionLeavesInput ==
    [][(currentData' # currentData /\ dataRef' = dataRef)
           => /\ groupedData' = groupedData
              /\ data' = data
              /\ viscosityData' = viscosityData
              /\ SelectionIsKey'
                     => IsPermutation(currentData',
                                      Get(groupedData',
                                          selectedGroupSignature'))]_vars

\* the series of the selected group is in another order than the group,
\* which is in the order of the sample sequence
C26_Witness ==
    /\ shown
    /\ SelectionIsKey
    /\ \E i \in 1..(Len(data) - 1) :
           Get(groupedData, selectedGroupSignature) = <<data[i], data[i + 1]>>
    /\ currentData # Get(groupedData, selectedGroupSignature)
    /\ IsPermutation(currentData, Get(groupedData, selectedGroupSignature))

(***************************************************************************)
(* DataView: the selection at rest.                                        *)
(***************************************************************************)
\* the effects of the last render have run, and no selection and no
\* render is waiting
Quiescent == ~fx.pending /\ pendingSel = <<>> /\ ~needRender

\* the selection is not empty and not a key of the grouping
StaleSelection ==
    /\ selectedGroupSignature # <<>>
    /\ ~HasKey(groupedData, selectedGroupSignature)

\* C27: at rest the selection is a key of the grouping if there is a
\* group, and the empty string if there is none.  A selection that is not
\* a key is seen only in the render that first shows a replaced sample set,
\* whose effects have not run or have left a key queued; the series of
\* that render is empty.
C27_SelectionValidAtRest ==
    /\ Quiescent => IF groupedData # <<>> THEN SelectionIsKey
                    ELSE selectedGroupSignature = <<>>
    /\ StaleSelection
           => /\ fx.data
              /\ currentData = <<>>
              /\ fx.pending
                     \/ (pendingSel # <<>> /\ HasKey(groupedData, pendingSel[1]))

\* the view is at rest with a selected group other than the first, of a
\* set that replaced another
C27_Witness ==
    /\ Quiescent
    /\ shown
    /\ SelectionIsKey
    /\ selectedGroupSignature # groupKeys[1]
    /\ currentData # <<>>
    /\ prevDataRef = dataRef
    /\ dataRef \in FilterRefs

(***************************************************************************)
(* Mock load over the mock set.                                            *)
(***************************************************************************)
\* the step is a render, the step is the run of the effects of a render
RenderStep == ~fx.pending /\ fx'.pending
EffectsStep == fx.pending /\ ~fx'.pending

\* C28: a mock load while MOCK_DATA is the sample set hands over the same
\* array: the set and its identity stay, the render that follows keeps the
\* grouping and is no render of another array, and its effects leave a
\* selection that is a key as it is.  Effects change such a selection only
\* after a render of another array.
C28_MockReloadKeepsSelection ==
    [][/\ (MockCompletes /\ viscosityData = MOCK_DATA)
           => /\ viscosityRef' = viscosityRef
              /\ viscosityData' = viscosityData
              /\ UNCHANGED <<selectedGroupSignature, pendingSel>>
       /\ (RenderStep /\ data = MOCK_DATA /\ viscosityData = MOCK_DATA)
           => ~fx'.data /\ groupedData' = groupedData
       /\ (EffectsStep /\ SelectionIsKey /\ dataRef = prevDataRef)
           => QueuedSelection' = QueuedSelection
       /\ (EffectsStep /\ SelectionIsKey
               /\ QueuedSelection' # QueuedSelection)
           => dataRef # prevDataRef]_vars

\* a mock load has completed over the mock set at rest with the second
\* group selected: the render it asks for is the only thing pending
C28_Witness ==
    /\ viscosityData = MOCK_DATA
    /\ data = MOCK_DATA
    /\ viscosityRef = dataRef
    /\ ~connecting
    /\ needRender
    /\ ~fx.pending
    /\ pendingSel = <<>>
    /\ selectedGroupSignature = groupKeys[2]
    /\ currentData # <<>>

(***************************************************************************)
(* Code view and API key.                                                  *)
(***************************************************************************)
\* C29: whenever there are generated files the selected index is one of
\* theirs, so the code view reads generatedFiles[selectedFileIndex] of a
\* file that exists.
C29_SelectedFileExists ==
    generatedFiles # <<>>
        => selectedFileIndex \in 0..(Len(generatedFiles) - 1)

\* C30: whenever the key status is 'valid', the stored key is the text of
\* the key input.
C30_ValidKeyIsShownKey == keyStatus = "valid" => apiKey = keyInput

=============================================================================
